---- MODULE Spec2Model ----
(***************************************************************************)
(* A model of dbcparser's stream tokenizer (StreamParser.line_iter), its   *)
(* line classifiers (the LineObject subclasses registered with @dbc_line)  *)
(* and the file parser (DBCParser.parse), from src/src/dbcparser/parser.py *)
(*                                                                         *)
(* Text is a sequence of one-character strings: <<"B","O","_">> is 'BO_'.  *)
(***************************************************************************)
EXTENDS Integers, Sequences, FiniteSets, TLC

\* ------------------------------------------------------------------------
\* Characters
\* ------------------------------------------------------------------------
NL == "\n"
QUOTE == "\""
SpaceChars == {" ", "\t", NL}
DigitChars == {"0", "1", "2", "3", "4", "5", "6", "7", "8", "9"}
UpperChars == {"A", "B", "C", "D", "E", "F", "G", "H", "I", "J", "K", "L", "M",
               "N", "O", "P", "Q", "R", "S", "T", "U", "V", "W", "X", "Y", "Z"}
LowerChars == {"a", "b", "c", "d", "e", "f", "g", "h", "i", "j", "k", "l", "m",
               "n", "o", "p", "q", "r", "s", "t", "u", "v", "w", "x", "y", "z"}
WordChars == UpperChars \cup LowerChars \cup DigitChars \cup {"_"}

\* the absent text (Python's None where a string may stand): no text is
\* equal to it, a text being a sequence of one-character strings
None == <<"None">>

\* the sequences of up to n elements of a set
Texts(alphabet, n) == UNION {[1..k -> alphabet] : k \in 0..n}

\* the texts of a sequence, joined
RECURSIVE Flatten(_)
Flatten(texts) ==
    IF texts = <<>> THEN <<>> ELSE Head(texts) \o Flatten(Tail(texts))

\* ------------------------------------------------------------------------
\* Regular expressions: the patterns of the source are re.compile()d and
\* used with search(); this is the backtracking matcher those calls run,
\* with Python's priorities (greedy: longest first, lazy: shortest first,
\* alternatives left to right), so that the captured groups are Python's.
\* ------------------------------------------------------------------------
Chr(S) == [op |-> "set", set |-> S, neg |-> FALSE]
NotChr(S) == [op |-> "set", set |-> S, neg |-> TRUE]
Lit(w) == [op |-> "lit", word |-> w]
Cat(ps) == [op |-> "cat", parts |-> ps]
Alt(ps) == [op |-> "alt", parts |-> ps]
Star(r) == [op |-> "rep", sub |-> r, min |-> 0, greedy |-> TRUE]
Plus(r) == [op |-> "rep", sub |-> r, min |-> 1, greedy |-> TRUE]
LazyStar(r) == [op |-> "rep", sub |-> r, min |-> 0, greedy |-> FALSE]
LazyPlus(r) == [op |-> "rep", sub |-> r, min |-> 1, greedy |-> FALSE]
Opt(r) == [op |-> "opt", sub |-> r]
Grp(n, r) == [op |-> "grp", name |-> n, sub |-> r]
\* ^ and $ ; ml is the re.MULTILINE flag
Bol(ml) == [op |-> "bol", ml |-> ml]
Eol(ml) == [op |-> "eol", ml |-> ml]

\* \s \S \d \w and . (without and with re.DOTALL)
WS == Chr(SpaceChars)
NonWS == NotChr(SpaceChars)
Digit == Chr(DigitChars)
Word == Chr(WordChars)
Dot == NotChr({NL})
\* faulty variant: the dot of a pattern compiled without re.DOTALL
DotAll_line == NotChr({NL})
DotAll == NotChr({})

NoMatch == [ok |-> FALSE]
Matched(j, caps) == [ok |-> TRUE, end |-> j, caps |-> caps]
NoGroups == [n \in {} |-> None]

AtBol(s, i, ml) == i = 0 \/ (ml /\ s[i] = NL)
AtEol(s, i, ml) ==
    \/ i = Len(s)
    \/ (i = Len(s) - 1 /\ s[i + 1] = NL)
    \/ (ml /\ s[i + 1] = NL)

HasWordAt(s, i, w) ==
    /\ i + Len(w) <= Len(s)
    /\ \A k \in 1..Len(w) : s[i + k] = w[k]

HasCharAt(s, i, cls) == i < Len(s) /\ ((s[i + 1] \in cls.set) # cls.neg)

\* how many characters from offset i on are in the character class cls
RunLength(s, i, cls) ==
    LET stops == {k \in (i + 1)..Len(s) : (s[k] \in cls.set) = cls.neg}
    IN  IF stops = {} THEN Len(s) - i
        ELSE (CHOOSE k \in stops : \A j \in stops : k <= j) - i - 1

Least(S) == CHOOSE k \in S : \A j \in S : k <= j
Greatest(S) == CHOOSE k \in S : \A j \in S : k >= j

\* Offsets count the characters before them: offset 0 is the start of s.
\* Ends(r, s, i) is the set of offsets at which a match of r that starts
\* at offset i can end (every way the backtracking matcher could take r).
RECURSIVE Ends(_, _, _)
RECURSIVE ReachRange(_, _, _, _, _)
RECURSIVE RepEnds(_, _, _, _)

EndsFrom(r, s, I) == UNION {Ends(r, s, i) : i \in I}

\* the offsets reached from those of I by parts[lo..hi] in sequence
ReachRange(parts, lo, hi, s, I) ==
    IF I = {} \/ lo > hi THEN I
    ELSE IF lo = hi THEN EndsFrom(parts[lo], s, I)
    ELSE LET mid == (lo + hi) \div 2
         IN  ReachRange(parts, mid + 1, hi, s, ReachRange(parts, lo, mid, s, I))

\* the offsets reached from those of I by min or more repetitions of sub
RepEnds(sub, s, I, min) ==
    IF I = {} THEN {}
    ELSE IF min > 0 THEN RepEnds(sub, s, EndsFrom(sub, s, I), min - 1)
    ELSE I \cup RepEnds(sub, s, EndsFrom(sub, s, I) \ I, 0)

Ends(r, s, i) ==
    CASE r.op = "set" -> IF HasCharAt(s, i, r) THEN {i + 1} ELSE {}
      [] r.op = "lit" -> IF HasWordAt(s, i, r.word) THEN {i + Len(r.word)} ELSE {}
      [] r.op = "cat" -> ReachRange(r.parts, 1, Len(r.parts), s, {i})
      [] r.op = "alt" -> UNION {Ends(r.parts[k], s, i) : k \in 1..Len(r.parts)}
      [] r.op = "opt" -> {i} \cup Ends(r.sub, s, i)
      [] r.op = "rep" ->
           IF r.sub.op = "set"
           THEN {i + n : n \in r.min..RunLength(s, i, r.sub)}
           ELSE RepEnds(r.sub, s, {i}, r.min)
      [] r.op = "grp" -> Ends(r.sub, s, i)
      [] r.op = "bol" -> IF AtBol(s, i, r.ml) THEN {i} ELSE {}
      [] r.op = "eol" -> IF AtEol(s, i, r.ml) THEN {i} ELSE {}

\* Select(r, s, i, T): the match of r from offset i that the backtracking
\* matcher settles on when what follows r can match exactly from the
\* offsets of T: the first, in Python's order of trying (a greedy repeat
\* longest first, a lazy one shortest first, alternatives left to right),
\* that ends in T.  caps are the named groups it captured.
RECURSIVE Select(_, _, _, _)
RECURSIVE SelectRange(_, _, _, _, _, _)
RECURSIVE SelectAlt(_, _, _, _, _)

SelectRange(parts, lo, hi, s, i, T) ==
    IF lo > hi THEN (IF i \in T THEN Matched(i, NoGroups) ELSE NoMatch)
    ELSE IF lo = hi THEN Select(parts[lo], s, i, T)
    ELSE LET mid == (lo + hi) \div 2
             Tmid == {j \in ReachRange(parts, lo, mid, s, {i}) :
                        ReachRange(parts, mid + 1, hi, s, {j}) \cap T # {}}
             left == SelectRange(parts, lo, mid, s, i, Tmid)
             right == SelectRange(parts, mid + 1, hi, s, left.end, T)
         IN  IF Tmid = {} THEN NoMatch
             ELSE Matched(right.end, right.caps @@ left.caps)

SelectAlt(parts, k, s, i, T) ==
    IF k > Len(parts) THEN NoMatch
    ELSE LET m == Select(parts[k], s, i, T)
         IN  IF m.ok THEN m ELSE SelectAlt(parts, k + 1, s, i, T)

Select(r, s, i, T) ==
    CASE r.op = "set" ->
           IF HasCharAt(s, i, r) /\ i + 1 \in T
           THEN Matched(i + 1, NoGroups) ELSE NoMatch
      [] r.op = "lit" ->
           IF HasWordAt(s, i, r.word) /\ i + Len(r.word) \in T
           THEN Matched(i + Len(r.word), NoGroups) ELSE NoMatch
      [] r.op = "cat" -> SelectRange(r.parts, 1, Len(r.parts), s, i, T)
      [] r.op = "alt" -> SelectAlt(r.parts, 1, s, i, T)
      [] r.op = "opt" ->
           LET taken == Select(r.sub, s, i, T)
           IN  IF taken.ok THEN taken
               ELSE IF i \in T THEN Matched(i, NoGroups) ELSE NoMatch
      [] r.op = "rep" /\ r.sub.op = "set" ->
           LET good == Ends(r, s, i) \cap T
           IN  IF good = {} THEN NoMatch
               ELSE Matched(IF r.greedy THEN Greatest(good) ELSE Least(good),
                            NoGroups)
      [] r.op = "rep" /\ r.sub.op # "set" ->
           LET again == Cat(<<r.sub, [r EXCEPT !.min = IF r.min > 0 THEN r.min - 1 ELSE 0]>>)
               more == Select(again, s, i, T)
               stop == IF i \in T THEN Matched(i, NoGroups) ELSE NoMatch
           IN  IF r.min > 0 THEN more
               ELSE IF r.greedy THEN (IF more.ok THEN more ELSE stop)
               ELSE (IF stop.ok THEN stop ELSE more)
      [] r.op = "grp" ->
           LET m == Select(r.sub, s, i, T)
           IN  IF m.ok
               THEN Matched(m.end, (r.name :> SubSeq(s, i + 1, m.end)) @@ m.caps)
               ELSE NoMatch
      [] r.op = "bol" ->
           IF AtBol(s, i, r.ml) /\ i \in T THEN Matched(i, NoGroups) ELSE NoMatch
      [] r.op = "eol" ->
           IF AtEol(s, i, r.ml) /\ i \in T THEN Matched(i, NoGroups) ELSE NoMatch

\* regex.search(s): the match at the leftmost offset that has one.  names
\* are the pattern's named groups; one that takes no part in the match is
\* None, as in match.groupdict().
Search(re, names, s) ==
    LET starts == {i \in 0..Len(s) : Ends(re, s, i) # {}}
        i0 == Least(starts)
        m == Select(re, s, i0, 0..Len(s))
    IN  IF starts = {} THEN NoMatch
        ELSE [ok |-> TRUE, start |-> i0, end |-> m.end,
              caps |-> m.caps @@ [n \in names |-> None]]

\* ------------------------------------------------------------------------
\* The registered line classes: each _REGEX, with its named groups
\* ------------------------------------------------------------------------
W0 == Star(WS)
W1 == Plus(WS)
C(c) == Lit(<<c>>)
Quoted(n) == Cat(<<C(QUOTE), Grp(n, Star(NotChr({QUOTE}))), C(QUOTE)>>)
BA == Lit(<<"B", "A", "_">>)
BO == Lit(<<"B", "O", "_">>)
BU == Lit(<<"B", "U", "_">>)
SG == Lit(<<"S", "G", "_">>)
CM == Lit(<<"C", "M", "_">>)
BA_DEF == Lit(<<"B", "A", "_", "D", "E", "F", "_">>)

NSLine_REGEX ==
    Cat(<<Bol(FALSE), Lit(<<"N", "S", "_">>), W0, C(":"), W0, Eol(FALSE)>>)

BSLine_REGEX ==
    Cat(<<Bol(FALSE), Lit(<<"B", "S", "_">>), W0, C(":"), W0, Eol(FALSE)>>)

Version_REGEX ==
    Cat(<<Bol(FALSE), Lit(<<"V", "E", "R", "S", "I", "O", "N">>), W0,
          Quoted("text"), W0, Eol(FALSE)>>)

Frame_REGEX ==
    Cat(<<Bol(FALSE), BO, W1,
          Grp("address", Plus(Digit)), W0,
          Grp("name", Plus(NonWS)), W0, C(":"), W0,
          Grp("dlc", Plus(Digit)), W1,
          Grp("transmitter", Plus(NonWS)),
          W0, Eol(FALSE)>>)

Signal_REGEX ==
    Cat(<<Bol(FALSE), W0, SG, W1,
          Grp("name", Plus(NonWS)), W0,
          Opt(Grp("mux", Alt(<<C("M"), Cat(<<C("m"), Plus(Digit)>>)>>))),
          W0, C(":"), W0,
          Grp("start", Plus(Digit)), W0, C("|"), W0,
          Grp("length", Plus(Digit)), W0, C("@"), W0,
          Grp("little_endian", Chr({"0", "1"})), W0,
          Grp("signed", Chr({"+", "-"})), W0,
          C("("),
          W0, Grp("factor", LazyPlus(NotChr({","}))), W0, C(","),
          W0, Grp("offset", LazyPlus(NotChr({")"}))), W0,
          C(")"), W0,
          C("["),
          W0, Grp("min", LazyPlus(NotChr({","}))), W0, C("|"),
          W0, Grp("max", LazyPlus(NotChr({"]"}))), W0,
          C("]"), W0,
          Quoted("unit"), W0,
          Grp("receivers", LazyStar(Dot)),
          W0, Eol(FALSE)>>)

\* the three comment patterns are compiled with re.MULTILINE | re.DOTALL
CommentTail ==
    Cat(<<C(QUOTE), Grp("comment", Star(DotAll)), C(QUOTE), W0,
          C(";"), W0, Eol(TRUE)>>)

SignalComment_REGEX ==
    Cat(<<Bol(TRUE), CM, W1, SG, W1,
          Grp("address", Plus(Digit)), W1,
          Grp("name", Plus(Word)), W0,
          CommentTail>>)

FrameComment_REGEX ==
    Cat(<<Bol(TRUE), CM, W1, BO, W1,
          Grp("address", Plus(Digit)), W1,
          CommentTail>>)

NodeList_REGEX ==
    Cat(<<Bol(FALSE), BU, W0, C(":"), W0,
          Grp("nodes", Star(Dot)), W0, Eol(FALSE)>>)

NodeComment_REGEX ==
    Cat(<<Bol(TRUE), CM, W1, BU, W1,
          Grp("node", Plus(NonWS)), W1,
          CommentTail>>)

EnumBody ==
    Grp("enums", Plus(Cat(<<Plus(Digit), W0,
                            C(QUOTE), Star(NotChr({QUOTE})), C(QUOTE), W0>>)))

Enumeration_REGEX ==
    Cat(<<Bol(FALSE), Lit(<<"V", "A", "L", "_">>), W1,
          Grp("address", Plus(Digit)), W1,
          Grp("signal", Plus(NonWS)), W1,
          EnumBody, W0, C(";"), W0, Eol(FALSE)>>)

ValueTable_REGEX ==
    Cat(<<Bol(FALSE),
          Lit(<<"V", "A", "L", "_", "T", "A", "B", "L", "E", "_">>), W1,
          Grp("table", Plus(NonWS)), W1,
          EnumBody, W0, C(";"), W0, Eol(FALSE)>>)

DefineTail ==
    Cat(<<Quoted("name"), W0,
          Grp("type", Plus(NonWS)),
          Opt(Cat(<<W1, Grp("params", Star(Dot))>>)), W0,
          C(";"), W0, Eol(FALSE)>>)

GlobalDefine_REGEX == Cat(<<Bol(FALSE), BA_DEF, W0, DefineTail>>)
SignalDefine_REGEX == Cat(<<Bol(FALSE), BA_DEF, W1, SG, W0, DefineTail>>)
FrameDefine_REGEX == Cat(<<Bol(FALSE), BA_DEF, W1, BO, W0, DefineTail>>)
NodeDefine_REGEX == Cat(<<Bol(FALSE), BA_DEF, W1, BU, W0, DefineTail>>)

ValueTail ==
    Cat(<<Grp("value", LazyStar(Dot)), W0, C(";"), W0, Eol(FALSE)>>)

GlobalAttribute_REGEX ==
    Cat(<<Bol(FALSE), BA, W0, Quoted("name"), W0, ValueTail>>)

SignalAttribute_REGEX ==
    Cat(<<Bol(FALSE), BA, W0, Quoted("name"), W0, SG, W1,
          Grp("address", Plus(Digit)), W1,
          Grp("signal_name", Plus(Word)), W1,
          ValueTail>>)

FrameAttribute_REGEX ==
    Cat(<<Bol(FALSE), BA, W0, Quoted("name"), W0, BO, W1,
          Grp("address", Plus(Digit)), W1,
          ValueTail>>)

NodeAttribute_REGEX ==
    Cat(<<Bol(FALSE), BA, W0, Quoted("name"), W0, BU, W1,
          Grp("node_name", Plus(Word)), W1,
          ValueTail>>)

DefaultValue_REGEX ==
    Cat(<<Bol(FALSE), Lit(<<"B", "A", "_", "D", "E", "F", "_", "D", "E", "F", "_">>),
          W0, Quoted("name"), W0, ValueTail>>)

DefineGroups == {"name", "type", "params"}

\* DBC_LINE_CLASSES, in the order the @dbc_line decorator registers them
DBC_LINE_CLASSES ==
    << [name |-> "NSLine", regex |-> NSLine_REGEX, groups |-> {}],
       [name |-> "BSLine", regex |-> BSLine_REGEX, groups |-> {}],
       [name |-> "Version", regex |-> Version_REGEX, groups |-> {"text"}],
       [name |-> "Frame", regex |-> Frame_REGEX,
        groups |-> {"address", "name", "dlc", "transmitter"}],
       [name |-> "Signal", regex |-> Signal_REGEX,
        groups |-> {"name", "mux", "start", "length", "little_endian",
                    "signed", "factor", "offset", "min", "max", "unit",
                    "receivers"}],
       [name |-> "SignalComment", regex |-> SignalComment_REGEX,
        groups |-> {"address", "name", "comment"}],
       [name |-> "FrameComment", regex |-> FrameComment_REGEX,
        groups |-> {"address", "comment"}],
       [name |-> "NodeList", regex |-> NodeList_REGEX, groups |-> {"nodes"}],
       [name |-> "NodeComment", regex |-> NodeComment_REGEX,
        groups |-> {"node", "comment"}],
       [name |-> "Enumeration", regex |-> Enumeration_REGEX,
        groups |-> {"address", "signal", "enums"}],
       [name |-> "ValueTable", regex |-> ValueTable_REGEX,
        groups |-> {"table", "enums"}],
       [name |-> "GlobalDefine", regex |-> GlobalDefine_REGEX,
        groups |-> DefineGroups],
       [name |-> "SignalDefine", regex |-> SignalDefine_REGEX,
        groups |-> DefineGroups],
       [name |-> "FrameDefine", regex |-> FrameDefine_REGEX,
        groups |-> DefineGroups],
       [name |-> "NodeDefine", regex |-> NodeDefine_REGEX,
        groups |-> DefineGroups],
       [name |-> "GlobalAttribute", regex |-> GlobalAttribute_REGEX,
        groups |-> {"name", "value"}],
       [name |-> "SignalAttribute", regex |-> SignalAttribute_REGEX,
        groups |-> {"name", "address", "signal_name", "value"}],
       [name |-> "FrameAttribute", regex |-> FrameAttribute_REGEX,
        groups |-> {"name", "address", "value"}],
       [name |-> "NodeAttribute", regex |-> NodeAttribute_REGEX,
        groups |-> {"name", "node_name", "value"}],
       [name |-> "DefaultValue", regex |-> DefaultValue_REGEX,
        groups |-> {"name", "value"}] >>

\* cls._REGEX.search(line) of LineObject.from_line
RegexSearch(cls, line) == Search(cls.regex, cls.groups, line)

\* ------------------------------------------------------------------------
\* Coercion of matched fields (LineObject.__init__ and GlobalDefine.__init__)
\* ------------------------------------------------------------------------
\* the text float() accepts: surrounding whitespace, a sign, digits (with
\* single underscores between them) with an optional point and exponent,
\* or inf / infinity / nan in any case
DigitRun == Cat(<<Digit, Star(Cat(<<Opt(C("_")), Digit>>))>>)
AnyCase(lower, upper) ==
    Cat([k \in 1..Len(lower) |-> Chr({lower[k], upper[k]})])
FloatText_REGEX ==
    Cat(<<W0, Opt(Chr({"+", "-"})),
          Alt(<<Cat(<<Alt(<<Cat(<<DigitRun, Opt(Cat(<<C("."), Opt(DigitRun)>>))>>),
                            Cat(<<C("."), DigitRun>>)>>),
                      Opt(Cat(<<Chr({"e", "E"}), Opt(Chr({"+", "-"})), DigitRun>>))>>),
                Cat(<<AnyCase(<<"i", "n", "f">>, <<"I", "N", "F">>),
                      Opt(AnyCase(<<"i", "n", "i", "t", "y">>,
                                  <<"I", "N", "I", "T", "Y">>))>>),
                AnyCase(<<"n", "a", "n">>, <<"N", "A", "N">>)>>),
          W0>>)
IntText_REGEX == Cat(<<W0, Opt(Chr({"+", "-"})), DigitRun, W0>>)

FullMatch(re, text) == Len(text) \in Ends(re, text, 0)
\* float(text) and int(text) return a number; otherwise they raise ValueError
IsFloatText(text) == FullMatch(FloatText_REGEX, text)
IsIntText(text) == FullMatch(IntText_REGEX, text)

\* re.split(r'\s+', text): the pieces between the runs of whitespace, the
\* empty pieces at either end included
SplitStarts(text) ==
    {1} \cup {p \in 2..(Len(text) + 1) :
                /\ text[p - 1] \in SpaceChars
                /\ (p = Len(text) + 1 \/ text[p] \notin SpaceChars)}
PieceAt(text, p) ==
    LET stops == {q \in p..Len(text) : text[q] \in SpaceChars}
    IN  SubSeq(text, p, IF stops = {} THEN Len(text) ELSE Least(stops) - 1)
SplitSpace(text) ==
    LET P == SplitStarts(text)
        nth(k) == CHOOSE p \in P : Cardinality({q \in P : q < p}) = k - 1
    IN  [k \in 1..Cardinality(P) |-> PieceAt(text, nth(k))]

TAG_STR == <<"S", "T", "R">>
TAG_STRING == <<"S", "T", "R", "I", "N", "G">>
TAG_INT == <<"I", "N", "T">>
TAG_HEX == <<"H", "E", "X">>
TAG_FLOAT == <<"F", "L", "O", "A", "T">>
TAG_BOOL == <<"B", "O", "O", "L">>
TAG_ENUM == <<"E", "N", "U", "M">>

NoError == "no error"

\* GlobalDefine.__init__: the exception it raises for the matched groups,
\* or NoError.  An unknown type tag is a KeyError; params missing where the
\* type needs them is a TypeError; a parameter that is no number of the
\* type is a ValueError.
DefineError(groups) ==
    LET tag == groups["type"]
        params == groups["params"]
        pieces == SplitSpace(params)
    IN  IF tag \notin {TAG_STR, TAG_STRING, TAG_INT, TAG_HEX, TAG_FLOAT,
                         TAG_BOOL, TAG_ENUM}
        THEN "KeyError"
        ELSE IF tag \in {TAG_STR, TAG_STRING} THEN NoError
        ELSE IF params = None THEN "TypeError"
        ELSE IF tag \in {TAG_INT, TAG_HEX} /\ \E k \in 1..Len(pieces) : ~IsIntText(pieces[k])
        THEN "ValueError"
        ELSE IF tag = TAG_FLOAT /\ \E k \in 1..Len(pieces) : ~IsFloatText(pieces[k])
        THEN "ValueError"
        ELSE NoError

DefineClasses == {"GlobalDefine", "SignalDefine", "FrameDefine", "NodeDefine"}

\* cls(**match.groupdict()): the exception the constructor raises, or NoError.
\* Of the _TYPE_MAP coercions only float() of a Signal's factor, offset,
\* min and max can fail: the other typed groups hold what their pattern
\* matched (digits for int, any text for the list and value types).
ConstructError(cls, groups) ==
    IF cls.name = "Signal"
    THEN IF \E key \in {"factor", "offset", "min", "max"} : ~IsFloatText(groups[key])
         THEN "ValueError" ELSE NoError
    ELSE IF cls.name \in DefineClasses THEN DefineError(groups)
    ELSE NoError

\* faulty variant: a constructor's exception is swallowed
from_line_lenient(cls, line) ==
    LET m == RegexSearch(cls, line)
    IN  IF ~m.ok \/ ConstructError(cls, m.caps) # NoError THEN [kind |-> "none"]
        ELSE [kind |-> "obj", cls |-> cls.name, groups |-> m.caps]

\* LineObject.from_line: None when the pattern does not match, else the
\* constructed object, or the exception its constructor raised
from_line(cls, line) ==
    LET m == RegexSearch(cls, line)
        err == ConstructError(cls, m.caps)
    IN  IF ~m.ok THEN [kind |-> "none"]
        ELSE IF err # NoError THEN [kind |-> "raise", cls |-> cls.name, error |-> err]
        ELSE [kind |-> "obj", cls |-> cls.name, groups |-> m.caps]

\* the classes whose pattern matches the line, by their place in
\* DBC_LINE_CLASSES
Matching(line) ==
    {k \in 1..Len(DBC_LINE_CLASSES) : RegexSearch(DBC_LINE_CLASSES[k], line).ok}

\* DBCParser.parse.get_obj: the classes are tried in registration order;
\* the first that matches builds the object (or raises)
RECURSIVE FirstObject(_, _)
FirstObject(classes, line) ==
    IF classes = <<>> THEN [kind |-> "none"]
    ELSE LET obj == from_line(Head(classes), line)
         IN  IF obj.kind # "none" THEN obj
             ELSE FirstObject(Tail(classes), line)

get_obj(line) == FirstObject(DBC_LINE_CLASSES, line)

\* ------------------------------------------------------------------------
\* State
\* ------------------------------------------------------------------------
VARIABLES
    stream,        \* the text of the stream (io.StringIO)
    pos,           \* the stream's position: stream.tell()
    chunk_size,    \* dbcparser.parser.CHUNK_SIZE (the tests patch it)
    stack,         \* StreamParser.stack, the pushed-back lines
    gen_pc,        \* where the line_iter generator stands
    string_state,  \* line_iter's string_state
    line,          \* line_iter's line buffer
    out,           \* every line yielded so far, with where it came from
    iter_from,     \* Len(out) when the current line_iter call was made
    iter_stack,    \* the stack when the current line_iter call was made
    runs,          \* the outcomes of the earlier complete runs over the stream
    strict,        \* DBCParser.parse's strict argument
    parse_pc,      \* where DBCParser.parse stands
    nproc,         \* the number of yielded lines the parse loop has taken
    frame_latest,  \* parse's frame_latest: the id of a Frame object, or NoFrame
    ignore_tabbed, \* parse's ignore_tabbed
    obj_list,      \* parse's obj_list
    result,        \* what parse returned, or NoResult
    error          \* the exception that ended the parse, or NoError

tok_vars == <<stream, pos, chunk_size, stack, gen_pc, string_state, line, out,
              iter_from, iter_stack, runs>>
parse_vars == <<strict, parse_pc, nproc, frame_latest, ignore_tabbed, obj_list,
                result, error>>
vars == <<stream, pos, chunk_size, stack, gen_pc, string_state, line, out,
          iter_from, iter_stack, runs, strict, parse_pc, nproc, frame_latest,
          ignore_tabbed, obj_list, result, error>>

\* CHUNK_SIZE as the module sets it
CHUNK_SIZE == 10

\* ------------------------------------------------------------------------
\* StreamParser: push, pop and the line_iter generator
\* ------------------------------------------------------------------------
\* gen_pc: "none"        line_iter() has not been called
\*         "new"         line_iter() was called; the body has not run yet
\*         "yield_stack" suspended at the yield of a popped line
\*         "read"        running the per-chunk loop
\*         "yield_line"  suspended at the yield of a line read from the stream
\*         "done"        the generator returned
\*         "raised"      the generator raised DBCSyntaxError
Suspended ==
    gen_pc \in {"none", "new", "yield_stack", "yield_line", "done", "raised"}

\* stream.read(n) at position p
ReadAt(text, p, n) ==
    SubSeq(text, p + 1, IF p + n <= Len(text) THEN p + n ELSE Len(text))

\* faulty variant: quotes do not toggle string_state
StringStateAfter_never(state, text) == state

\* string_state after the quotes of text have each toggled it
StringStateAfter(state, text) ==
    state # (Cardinality({k \in 1..Len(text) : text[k] = QUOTE}) % 2 = 1)

\* faulty variant: the loop does not stop at the first terminator
TerminatorEnd_last(state, chunk) ==
    LET ends == {k \in 1..Len(chunk) :
                   /\ chunk[k] = NL
                   /\ ~StringStateAfter(state, SubSeq(chunk, 1, k - 1))}
    IN  IF ends = {} THEN 0 ELSE Greatest(ends)

\* faulty variant: string_state is not carried into the chunk
TerminatorEnd_forgetful(state, chunk) ==
    LET ends == {k \in 1..Len(chunk) :
                   /\ chunk[k] = NL
                   /\ ~StringStateAfter(FALSE, SubSeq(chunk, 1, k - 1))}
    IN  IF ends = {} THEN 0 ELSE Least(ends)

\* the for loop over chr_regex.finditer(chunk): m.end() of the first
\* newline met with string_state off, or 0 when the loop ends without one
TerminatorEnd(state, chunk) ==
    LET ends == {k \in 1..Len(chunk) :
                   /\ chunk[k] = NL
                   /\ ~StringStateAfter(state, SubSeq(chunk, 1, k - 1))}
    IN  IF ends = {} THEN 0 ELSE Least(ends)

\* faulty variant: what is left at the end of the stream is not yielded
EofOutcome_drop(buffer, state) ==
    IF buffer # <<>> /\ state THEN "raised" ELSE "done"

\* faulty variant: the per-chunk loop does not stop at the end of the stream
EofOutcome_retry(buffer, state) == "read"

\* faulty variant: string_state is not looked at when the stream ends
EofOutcome_unchecked(buffer, state) ==
    IF buffer = <<>> THEN "done" ELSE "yield_line"

\* at EOF: a line if there is something to return (an error if it ends
\* inside a string), otherwise the generator is done
EofOutcome(buffer, state) ==
    IF buffer = <<>> THEN "done"
    ELSE IF state THEN "raised"
    ELSE "yield_line"

\* faulty variant: the stream is not moved back over the chunk's excess
SeekBack_none(tell, chunk_excess) == tell

\* faulty variant: the stream is moved back one character short
SeekBack_short(tell, chunk_excess) ==
    IF chunk_excess > 0 THEN tell - chunk_excess + 1 ELSE tell

\* stream.seek(stream.tell() - chunk_excess)
SeekBack(tell, chunk_excess) == tell - chunk_excess

\* self.stack.append(line)
push(stk, text) == Append(stk, text)
\* faulty variant: the stack is popped at its other end
pop_last(stk) ==
    [line |-> stk[Len(stk)], stack |-> SubSeq(stk, 1, Len(stk) - 1)]

\* self.stack.pop(0): the line popped and the stack left
pop(stk) == [line |-> Head(stk), stack |-> Tail(stk)]

\* faulty variant: a line is yielded without the newline that ended it
Yielded_stripped(text, via) ==
    [text |-> IF text # <<>> /\ text[Len(text)] = NL
              THEN SubSeq(text, 1, Len(text) - 1) ELSE text,
     via |-> via]

Yielded(text, via) == [text |-> text, via |-> via]

\* StreamParser.push(line), by the caller, while no generator is running
Push(text) ==
    /\ Suspended
    /\ stack' = push(stack, text)
    /\ UNCHANGED <<stream, pos, chunk_size, gen_pc, string_state, line, out,
                   iter_from, iter_stack, runs>>

\* the caller calls line_iter(): for the first time, or again, dropping
\* the suspended or finished generator it has
NewIter ==
    /\ gen_pc \in {"none", "yield_stack", "yield_line", "done"}
    /\ gen_pc' = "new"
    /\ iter_from' = Len(out)
    /\ iter_stack' = stack
    /\ UNCHANGED <<stream, pos, chunk_size, stack, string_state, line, out, runs>>

\* next() while the stack holds a line: yield self.pop()
YieldPushed ==
    /\ gen_pc \in {"new", "yield_stack"}
    /\ stack # <<>>
    /\ stack' = pop(stack).stack
    /\ out' = Append(out, Yielded(pop(stack).line, "stack"))
    /\ gen_pc' = "yield_stack"
    /\ UNCHANGED <<stream, pos, chunk_size, string_state, line, iter_from,
                   iter_stack, runs>>

\* next() with the stack empty: the generator goes on to read the stream
EnterStream ==
    /\ gen_pc \in {"new", "yield_stack"}
    /\ stack = <<>>
    /\ string_state' = FALSE
    /\ line' = <<>>
    /\ gen_pc' = "read"
    /\ UNCHANGED <<stream, pos, chunk_size, stack, out, iter_from, iter_stack, runs>>

\* One pass of the per-chunk loop, from a line being read or from the
\* yield of the line before it (the per-line loop then starts a new line).
ReadChunk ==
    /\ gen_pc \in {"read", "yield_line"}
    /\ LET buffer == IF gen_pc = "yield_line" THEN <<>> ELSE line
           chunk == ReadAt(stream, pos, chunk_size)
           tell == pos + Len(chunk)
           stop == TerminatorEnd(string_state, chunk)
           chunk_excess == Len(chunk) - stop
       IN  IF chunk = <<>>
           THEN \* EOF: a line if there is something to return
                /\ line' = buffer
                /\ UNCHANGED <<pos, string_state>>
                /\ gen_pc' = EofOutcome(buffer, string_state)
                /\ out' = IF gen_pc' = "yield_line"
                          THEN Append(out, Yielded(buffer, "stream"))
                          ELSE out
           ELSE IF stop = 0
           THEN \* no terminator in the chunk: read on
                /\ line' = buffer \o chunk
                /\ string_state' = StringStateAfter(string_state, chunk)
                /\ pos' = tell
                /\ gen_pc' = "read"
                /\ out' = out
           ELSE \* a terminator: rewind to just after it, yield the line
                /\ pos' = SeekBack(tell, chunk_excess)
                /\ line' = SubSeq(buffer \o chunk, 1,
                                  Len(buffer) + Len(chunk) - chunk_excess)
                /\ string_state' =
                     StringStateAfter(string_state, SubSeq(chunk, 1, stop))
                /\ gen_pc' = "yield_line"
                /\ out' = Append(out, Yielded(line', "stream"))
    /\ UNCHANGED <<stream, chunk_size, stack, iter_from, iter_stack, runs>>

GenStep == YieldPushed \/ EnterStream \/ ReadChunk

\* ------------------------------------------------------------------------
\* DBCParser.parse
\* ------------------------------------------------------------------------
\* parse_pc: "none"      parse() has not been called
\*           "loop"      in the for loop over self.line_iter()
\*           "returned"  parse returned obj_list
\*           "raised"    an exception left parse
\* frame_latest = None
NoFrame == 0
NoResult == <<"no result">>

\* faulty variant: only the empty text is blank
IsBlank_empty(text) == text = <<>>

\* not line.rstrip()
IsBlank(text) == \A k \in 1..Len(text) : text[k] \in SpaceChars
\* re.search(r'^\s+', line)
BeginsWithSpace(text) == text # <<>> /\ text[1] \in SpaceChars

\* the object a constructor returned, with its identity; every object
\* that is built is appended to obj_list, so the next identity is free
NewObject(made, list) ==
    [id |-> Len(list) + 1, cls |-> made.cls, groups |-> made.groups]

\* faulty variant: a Signal met before any Frame is linked to itself
link_to_frame_self(obj, frame) ==
    obj @@ [frame |-> IF frame = NoFrame THEN obj.id ELSE frame]

\* Signal.link_to_frame: self.frame = frame
link_to_frame(obj, frame) == obj @@ [frame |-> frame]

\* faulty variant: frame_latest is set by the first Frame only
FrameLatestAfter_first(latest, obj) ==
    IF obj.cls = "Frame" /\ latest = NoFrame THEN obj.id ELSE latest

\* faulty variant: BS_ does not start the ignoring of tabbed lines
IgnoreTabbedAfter_NS(obj) == obj.cls = "NSLine"

\* the parser state changes for a built object: frame_latest, the object
\* as appended (a Signal linked), ignore_tabbed
FrameLatestAfter(latest, obj) ==
    IF obj.cls = "Frame" THEN obj.id ELSE latest
Appended(latest, obj) ==
    IF obj.cls = "Signal" THEN link_to_frame(obj, latest) ELSE obj
IgnoreTabbedAfter(obj) == obj.cls \in {"NSLine", "BSLine"}

\* The streams parsed: up to MaxLines of these pieces of DBC text, joined.
MaxLines == 3
FrameText == <<"B", "O", "_", " ", "1", " ", "F", ":", " ", "8", " ", "N", NL>>
SignalText ==
    <<" ", "S", "G", "_", " ", "s", " ", ":", " ", "0", "|", "1", "@", "1", "+",
      " ", "(", "1", ",", "0", ")", " ", "[", "0", "|", "1", "]", " ",
      QUOTE, QUOTE, " ", "N", NL>>
BadSignalText ==
    <<" ", "S", "G", "_", " ", "t", ":", "0", "|", "1", "@", "1", "+",
      "(", "x", ",", "0", ")", "[", "0", "|", "1", "]", QUOTE, QUOTE, NL>>
NSText == <<"N", "S", "_", " ", ":", NL>>
BSText == <<"B", "S", "_", ":", NL>>
JunkText == <<"z">>
BlankText == <<" ", NL>>
AttributeText ==
    <<"B", "A", "_", " ", QUOTE, "n", QUOTE, " ", "B", "O", "_", " ", "1", " ",
      "2", ";", NL>>
UnclosedText == <<"V", "E", "R", "S", "I", "O", "N", " ", QUOTE, "v", NL>>

Catalogue ==
    {FrameText, SignalText, BadSignalText, NSText, BSText, JunkText,
     BlankText, AttributeText, UnclosedText}

\* next() on the generator, from the for statement
ParseNext ==
    /\ parse_pc = "loop"
    /\ nproc = Len(out)
    /\ EnterStream \/ ReadChunk
    /\ UNCHANGED parse_vars

\* the body of the for loop, for the line the generator has just yielded
ParseLine ==
    /\ parse_pc = "loop"
    /\ nproc < Len(out)
    /\ nproc' = nproc + 1
    /\ LET text == out[nproc + 1].text
       IN  IF IsBlank(text)
           THEN \* ignore empty lines
                UNCHANGED <<parse_pc, frame_latest, ignore_tabbed, obj_list, error>>
           ELSE IF ignore_tabbed /\ BeginsWithSpace(text)
           THEN \* ignore lines that begin with whitespace
                UNCHANGED <<parse_pc, frame_latest, ignore_tabbed, obj_list, error>>
           ELSE \E made \in {get_obj(text)} :
                IF made.kind = "raise"
                THEN \* the constructor raised
                     /\ parse_pc' = "raised"
                     /\ error' = made.error
                     /\ ignore_tabbed' = FALSE
                     /\ UNCHANGED <<frame_latest, obj_list>>
                ELSE IF made.kind = "none" /\ strict
                THEN /\ parse_pc' = "raised"
                     /\ error' = "ValueError: unrecognised line"
                     /\ ignore_tabbed' = FALSE
                     /\ UNCHANGED <<frame_latest, obj_list>>
                ELSE IF made.kind = "none"
                THEN /\ ignore_tabbed' = FALSE
                     /\ UNCHANGED <<parse_pc, frame_latest, obj_list, error>>
                ELSE \E obj \in {NewObject(made, obj_list)} :
                     /\ frame_latest' = FrameLatestAfter(frame_latest, obj)
                     /\ obj_list' = Append(obj_list, Appended(frame_latest, obj))
                     /\ ignore_tabbed' = IgnoreTabbedAfter(obj)
                     /\ UNCHANGED <<parse_pc, error>>
    /\ UNCHANGED <<strict, result>>
    /\ UNCHANGED tok_vars

\* the generator is exhausted: the loop ends and parse returns obj_list
ParseReturn ==
    /\ parse_pc = "loop"
    /\ nproc = Len(out)
    /\ gen_pc = "done"
    /\ parse_pc' = "returned"
    /\ result' = obj_list
    /\ UNCHANGED <<strict, nproc, frame_latest, ignore_tabbed, obj_list, error>>
    /\ UNCHANGED tok_vars

\* the generator raised: nothing in parse catches it
ParseAbort ==
    /\ parse_pc = "loop"
    /\ nproc = Len(out)
    /\ gen_pc = "raised"
    /\ parse_pc' = "raised"
    /\ error' = "DBCSyntaxError"
    /\ UNCHANGED <<strict, nproc, frame_latest, ignore_tabbed, obj_list, result>>
    /\ UNCHANGED tok_vars

ParseInit ==
    /\ \E pieces \in Texts(Catalogue, MaxLines) : stream = Flatten(pieces)
    /\ pos = 0
    /\ chunk_size = CHUNK_SIZE
    /\ stack = <<>>
    /\ gen_pc = "new"
    /\ string_state = FALSE
    /\ line = <<>>
    /\ out = <<>>
    /\ iter_from = 0
    /\ iter_stack = <<>>
    /\ runs = <<>>
    /\ strict \in BOOLEAN
    /\ parse_pc = "loop"
    /\ nproc = 0
    /\ frame_latest = NoFrame
    /\ ignore_tabbed = FALSE
    /\ obj_list = <<>>
    /\ result = NoResult
    /\ error = NoError

ParseStep == ParseNext \/ ParseLine \/ ParseReturn \/ ParseAbort

Spec == ParseInit /\ [][ParseStep]_vars

\* ------------------------------------------------------------------------
\* The tokenizer on its own: every short stream, read with every chunk size
\* ------------------------------------------------------------------------
MaxStreamLen == 6
MaxSmallChunk == 3
TokAlphabet == {"a", QUOTE, NL}
ChunkSizes == 1..MaxSmallChunk \cup {CHUNK_SIZE}

NoParse ==
    /\ strict = FALSE
    /\ parse_pc = "none"
    /\ nproc = 0
    /\ frame_latest = NoFrame
    /\ ignore_tabbed = FALSE
    /\ obj_list = <<>>
    /\ result = NoResult
    /\ error = NoError

TokState(content) ==
    /\ stream = content
    /\ pos = 0
    /\ stack = <<>>
    /\ gen_pc = "none"
    /\ string_state = FALSE
    /\ line = <<>>
    /\ out = <<>>
    /\ iter_from = 0
    /\ iter_stack = <<>>
    /\ runs = <<>>

TokInit ==
    /\ \E content \in Texts(TokAlphabet, MaxStreamLen) : TokState(content)
    /\ chunk_size \in ChunkSizes
    /\ NoParse

TokNext ==
    \/ (NewIter /\ UNCHANGED parse_vars)
    \/ (EnterStream /\ UNCHANGED parse_vars)
    \/ (ReadChunk /\ UNCHANGED parse_vars)

SpecTok == TokInit /\ [][TokNext]_vars

\* ------------------------------------------------------------------------
\* The tokenizer with a caller that pushes lines back
\* ------------------------------------------------------------------------
MaxPush == 2
MaxPushStreamLen == 2
PushLines == {<<"p", NL>>, <<"q">>}
Pushes == Len(stack) + Cardinality({k \in 1..Len(out) : out[k].via = "stack"})

StackInit ==
    /\ \E content \in Texts(TokAlphabet, MaxPushStreamLen) : TokState(content)
    /\ chunk_size \in ChunkSizes
    /\ NoParse

StackNext ==
    \/ \E text \in PushLines :
         Pushes < MaxPush /\ Push(text) /\ UNCHANGED parse_vars
    \/ (NewIter /\ UNCHANGED parse_vars)
    \/ (YieldPushed /\ UNCHANGED parse_vars)
    \/ (EnterStream /\ UNCHANGED parse_vars)
    \/ (ReadChunk /\ UNCHANGED parse_vars)

SpecStack == StackInit /\ [][StackNext]_vars

\* ------------------------------------------------------------------------
\* The same stream read again from its start with the next chunk size
\* ------------------------------------------------------------------------
RunOutcome ==
    [lines |-> [k \in 1..Len(out) |-> out[k].text], raised |-> gen_pc = "raised"]

\* a run of line_iter over the whole stream is complete; the harness
\* rewinds the stream, patches CHUNK_SIZE and makes a new parser
Rerun ==
    /\ gen_pc \in {"done", "raised"}
    /\ \E bigger \in ChunkSizes :
         /\ bigger > chunk_size
         /\ \A c \in ChunkSizes : c > chunk_size => bigger <= c
         /\ chunk_size' = bigger
    /\ runs' = Append(runs, RunOutcome)
    /\ pos' = 0
    /\ gen_pc' = "new"
    /\ out' = <<>>
    /\ iter_from' = 0
    /\ iter_stack' = stack
    /\ UNCHANGED <<stream, stack, string_state, line>>

ChunkInit ==
    /\ \E content \in Texts(TokAlphabet, MaxStreamLen) : TokState(content)
    /\ chunk_size = 1
    /\ NoParse

ChunkNext ==
    \/ (NewIter /\ gen_pc = "none" /\ UNCHANGED parse_vars)
    \/ (EnterStream /\ UNCHANGED parse_vars)
    \/ (ReadChunk /\ UNCHANGED parse_vars)
    \/ (Rerun /\ UNCHANGED parse_vars)

SpecChunk == ChunkInit /\ [][ChunkNext]_vars

\* ------------------------------------------------------------------------
\* Properties of the tokenizer
\* ------------------------------------------------------------------------
IsStreamLine(e) == e.via = "stream"
\* the lines read from the stream and yielded so far, by every line_iter
\* call made on it
StreamLines ==
    LET got == SelectSeq(out, IsStreamLine)
    IN  [k \in 1..Len(got) |-> got[k].text]

QuoteCount(text) == Cardinality({k \in 1..Len(text) : text[k] = QUOTE})
InsideString(text, j) == QuoteCount(SubSeq(text, 1, j - 1)) % 2 = 1

\* C4: a newline ends a line only outside a quoted string: in every line
\* yielded from the stream a newline is the last character exactly when
\* an even number of quotes precedes it in the line, and the line holds no
\* unterminated quoted string.
C4_NewlineSplitsOnlyOutsideStrings ==
    \A k \in 1..Len(StreamLines) :
        LET text == StreamLines[k]
        IN  /\ QuoteCount(text) % 2 = 0
            /\ \A j \in 1..Len(text) :
                   text[j] = NL => ((j = Len(text)) <=> ~InsideString(text, j))

C4_Witness ==
    \E k \in 1..Len(StreamLines) :
        LET text == StreamLines[k]
        IN  /\ \E j \in 1..(Len(text) - 1) : text[j] = NL
            /\ text[Len(text)] = NL
            /\ k < Len(StreamLines)

\* the stream's text ends inside a quoted string
UnclosedAtEOF == QuoteCount(stream) % 2 = 1
EndsWithNewline(text) == text # <<>> /\ text[Len(text)] = NL

\* C5: a stream that ends inside an open quoted string makes line_iter
\* raise at EOF (it never finishes normally), and the text after the last
\* terminating newline is never yielded: every line yielded from such a
\* stream is a complete one, and together they are a proper prefix of it.
C5_UnclosedStringRaises ==
    /\ gen_pc = "done" => ~UnclosedAtEOF
    /\ gen_pc = "raised" => UnclosedAtEOF /\ pos = Len(stream)
    /\ UnclosedAtEOF =>
         /\ \A k \in 1..Len(StreamLines) :
                EndsWithNewline(StreamLines[k]) /\ QuoteCount(StreamLines[k]) % 2 = 0
         /\ Len(Flatten(StreamLines)) < Len(stream)

C5_Witness ==
    /\ gen_pc = "raised"
    /\ Len(StreamLines) >= 2
    /\ chunk_size = 2

\* C6: read with one chunk size after another, the same stream gives the
\* same lines (and the same failure) every time.
C6_ChunkSizeIndependent ==
    gen_pc \in {"done", "raised"} =>
        \A r \in 1..Len(runs) : runs[r] = RunOutcome

C6_Witness ==
    /\ gen_pc = "done"
    /\ Len(runs) = Cardinality(ChunkSizes) - 1
    /\ Len(out) >= 2
    /\ \E j \in 1..(Len(out[1].text) - 1) : out[1].text[j] = NL

\* C7: at every yield of a line read from the stream, the lines read so
\* far are, joined, exactly the text before the stream's position: the
\* position is just after the line's last character (its terminating
\* newline), whatever was read ahead, and however often the caller dropped
\* the iteration and began a new one; so when the last iteration is done
\* the lines are, joined, the whole stream.
C7_PositionAfterYieldedLine ==
    /\ gen_pc = "yield_line" => Flatten(StreamLines) = SubSeq(stream, 1, pos)
    /\ gen_pc = "done" => Flatten(StreamLines) = stream

C7_Witness ==
    /\ gen_pc = "yield_line"
    /\ EndsWithNewline(line)
    /\ pos < Len(stream)
    /\ chunk_size > Len(line)
    /\ iter_from > 0

\* C8: the lines on the stack when line_iter is called are the first that
\* call yields, in the order they were pushed, and it reads nothing from
\* the stream before it has yielded them all.
C8_PushedLinesFirst ==
    LET mine == SubSeq(out, iter_from + 1, Len(out))
    IN  /\ \A k \in 1..Len(mine) :
               k <= Len(iter_stack) => mine[k] = Yielded(iter_stack[k], "stack")
        /\ gen_pc \in {"read", "yield_line", "done", "raised"} =>
               Len(mine) >= Len(iter_stack)

C8_Witness ==
    /\ Len(iter_stack) = 2
    /\ iter_stack[1] # iter_stack[2]
    /\ gen_pc = "yield_line"
    /\ iter_from > 0

\* ------------------------------------------------------------------------
\* Properties of DBCParser.parse (under Spec)
\* ------------------------------------------------------------------------
Unrecognised == "ValueError: unrecognised line"
Finished == parse_pc \in {"returned", "raised"}

\* a line as the specification describes it
WhitespaceOnly(text) == \A k \in 1..Len(text) : text[k] \in SpaceChars
StartsWithWhitespace(text) == text # <<>> /\ text[1] \in SpaceChars
MarkerClasses ==
    {k \in 1..Len(DBC_LINE_CLASSES) :
        DBC_LINE_CLASSES[k].name \in {"NSLine", "BSLine"}}
IsMarker(text) ==
    \E k \in MarkerClasses : RegexSearch(DBC_LINE_CLASSES[k], text).ok
\* the place in DBC_LINE_CLASSES of the first class, from the k-th on, whose
\* pattern matches the text, or 0 when none does
RECURSIVE FirstMatching(_, _)
FirstMatching(k, text) ==
    IF k > Len(DBC_LINE_CLASSES) THEN 0
    ELSE IF RegexSearch(DBC_LINE_CLASSES[k], text).ok THEN k
    ELSE FirstMatching(k + 1, text)
\* the class at place first, the first to match the text, cannot build
\* its object
CannotBuild(first, text) ==
    /\ first # 0
    /\ LET cls == DBC_LINE_CLASSES[first]
       IN  ConstructError(cls, RegexSearch(cls, text).caps) # NoError
CoercionFails(text) == \E first \in {FirstMatching(1, text)} : CannotBuild(first, text)

\* the continuation state before the k-th yielded line, as the
\* specification describes it
RECURSIVE IgnoringBefore(_)
IgnoringBefore(k) ==
    IF k = 1 THEN FALSE
    ELSE LET text == out[k - 1].text
             ignoring == IgnoringBefore(k - 1)
         IN  IF WhitespaceOnly(text) THEN ignoring
             ELSE IF ignoring /\ StartsWithWhitespace(text) THEN TRUE
             ELSE IsMarker(text)
\* the k-th yielded line is non-blank and not dropped by the filter
Classified(k) ==
    /\ ~WhitespaceOnly(out[k].text)
    /\ ~(IgnoringBefore(k) /\ StartsWithWhitespace(out[k].text))
UnmatchedLine(k) == Classified(k) /\ Matching(out[k].text) = {}

FramesBefore(list, i) == {j \in 1..(i - 1) : list[j].cls = "Frame"}

\* C1: in the list parse returns, every Signal's frame link is the Frame
\* that most recently precedes it in the list (and so stands earlier in
\* the same list), or None when no Frame precedes it, whatever lies
\* between the two.
C1_SignalLinkedToLatestFrame ==
    parse_pc = "returned" =>
        \A i \in 1..Len(result) :
            result[i].cls = "Signal" =>
                result[i].frame =
                    IF FramesBefore(result, i) = {} THEN NoFrame
                    ELSE result[Greatest(FramesBefore(result, i))].id

C1_Witness ==
    /\ parse_pc = "returned"
    /\ \E i \in 1..Len(result) :
           /\ result[i].cls = "Signal"
           /\ Cardinality(FramesBefore(result, i)) = 2
           /\ result[i].frame = result[i - 1].id

C3_Step ==
    nproc' = nproc + 1 =>
        LET text == out[nproc + 1].text
        IN  IF WhitespaceOnly(text) \/ (ignore_tabbed /\ StartsWithWhitespace(text))
            THEN UNCHANGED <<ignore_tabbed, obj_list, parse_pc, error>>
            ELSE \E first \in {FirstMatching(1, text)} :
                 /\ ignore_tabbed' = (first \in MarkerClasses)
                 /\ first = 0 =>
                        /\ obj_list' = obj_list
                        /\ parse_pc' = IF strict THEN "raised" ELSE "loop"
                 /\ (first # 0 /\ parse_pc' = "loop") =>
                        /\ Len(obj_list') = Len(obj_list) + 1
                        /\ obj_list'[Len(obj_list')].cls = DBC_LINE_CLASSES[first].name
                 /\ (first # 0 /\ parse_pc' # "loop") => CannotBuild(first, text)

C3_ContinuationState ==
    /\ [](nproc = 0 => ~ignore_tabbed)
    /\ [][C3_Step]_vars

C3_Witness ==
    /\ nproc = 3
    /\ IsMarker(out[1].text)
    /\ StartsWithWhitespace(out[2].text) /\ Matching(out[2].text) # {}
    /\ ~StartsWithWhitespace(out[3].text) /\ Matching(out[3].text) # {}
    /\ ~ignore_tabbed
    /\ Len(obj_list) = 2

\* C9: in either mode, when the tokenizer raises, or when a classified
\* line's first matching class cannot build its object, the exception
\* leaves parse: nothing is returned, the line is not passed over, and
\* nothing more is done.
C9_Step ==
    /\ parse_pc = "raised" => FALSE
    /\ nproc' = nproc + 1 =>
           LET text == out[nproc + 1].text
               dropped == ignore_tabbed /\ StartsWithWhitespace(text)
           IN  (~WhitespaceOnly(text) /\ ~dropped /\ CoercionFails(text)) =>
                   /\ parse_pc' = "raised"
                   /\ error' \in {"ValueError", "KeyError", "TypeError"}
                   /\ obj_list' = obj_list
    /\ (gen_pc = "raised" /\ parse_pc = "loop") =>
           (parse_pc' = "raised" /\ error' = "DBCSyntaxError")

C9_ErrorsPropagate ==
    /\ [](parse_pc = "raised" => (result = NoResult /\ error # NoError))
    /\ [](parse_pc = "returned" => gen_pc = "done")
    /\ [][C9_Step]_vars

C9_Witness ==
    /\ ~strict
    /\ parse_pc = "raised"
    /\ error = "ValueError"
    /\ obj_list # <<>>
    /\ result = NoResult
    /\ CoercionFails(out[nproc].text)

\* C10: at most one class's pattern matches each line.
C10_AtMostOnePatternMatches ==
    \A k \in 1..Len(out) : Cardinality(Matching(out[k].text)) <= 1

\* ------------------------------------------------------------------------
\* Comment statements: one CM_ SG_, CM_ BO_ or CM_ BU_ statement, parsed
\* ------------------------------------------------------------------------
\* parse called on a parser whose stream holds content
ParseState(content) ==
    /\ stream = content
    /\ pos = 0
    /\ chunk_size = CHUNK_SIZE
    /\ stack = <<>>
    /\ gen_pc = "new"
    /\ string_state = FALSE
    /\ line = <<>>
    /\ out = <<>>
    /\ iter_from = 0
    /\ iter_stack = <<>>
    /\ runs = <<>>
    /\ parse_pc = "loop"
    /\ nproc = 0
    /\ frame_latest = NoFrame
    /\ ignore_tabbed = FALSE
    /\ obj_list = <<>>
    /\ result = NoResult
    /\ error = NoError

MaxCommentLen == 3
CommentAlphabet == {"a", ";", NL}
SignalCommentHead ==
    <<"C", "M", "_", " ", "S", "G", "_", " ", "1", " ", "s", " ">>
FrameCommentHead == <<"C", "M", "_", " ", "B", "O", "_", " ", "1", " ">>
NodeCommentHead == <<"C", "M", "_", " ", "B", "U", "_", " ", "N", " ">>
CommentHeads == {SignalCommentHead, FrameCommentHead, NodeCommentHead}
CommentStatement(head, body) == head \o <<QUOTE>> \o body \o <<QUOTE, ";", NL>>

CommentInit ==
    /\ \E head \in CommentHeads, body \in Texts(CommentAlphabet, MaxCommentLen) :
           ParseState(CommentStatement(head, body))
    /\ strict \in BOOLEAN

CommentNext == ParseNext \/ ParseLine \/ ParseReturn

SpecComment == CommentInit /\ [][CommentNext]_vars

\* the text between the first and the last quote of a statement
QuotePlaces(text) == {k \in 1..Len(text) : text[k] = QUOTE}
QuotedBody(text) ==
    SubSeq(text, Least(QuotePlaces(text)) + 1, Greatest(QuotePlaces(text)) - 1)
\* the class the statement's keyword names
CommentClass(text) ==
    IF SubSeq(text, 5, 7) = <<"S", "G", "_">> THEN "SignalComment"
    ELSE IF SubSeq(text, 5, 7) = <<"B", "O", "_">> THEN "FrameComment"
    ELSE "NodeComment"

\* C11: a comment statement whose quoted text holds newlines is yielded
\* by the tokenizer as one line, and parse returns one record for it, of
\* the comment class its keyword names, whose comment field is the quoted
\* text with its newlines as they stand; the parse does not fail.
C11_MultilineCommentIsOneRecord ==
    /\ parse_pc # "raised"
    /\ parse_pc = "returned" =>
           /\ Len(out) = 1
           /\ out[1].text = stream
           /\ Len(result) = 1
           /\ result[1].cls = CommentClass(stream)
           /\ result[1].groups["comment"] = QuotedBody(stream)

C11_Witness ==
    /\ parse_pc = "returned"
    /\ Len(result) = 1
    /\ \E k \in 1..Len(result[1].groups["comment"]) :
           result[1].groups["comment"][k] = NL

\* ------------------------------------------------------------------------
\* More properties of line_iter (under SpecTok)
\* ------------------------------------------------------------------------
\* text.split('\n'): the pieces between the newlines, one more than there
\* are newlines
NewlinePlaces(text) == {k \in 1..Len(text) : text[k] = NL}
SplitOnNewline(text) ==
    LET cuts == NewlinePlaces(text) \cup {0, Len(text) + 1}
        cut(k) == CHOOSE c \in cuts : Cardinality({d \in cuts : d < c}) = k
    IN  [k \in 1..(Cardinality(cuts) - 1) |->
            SubSeq(text, cut(k - 1) + 1, cut(k) - 1)]
\* those pieces as lines that keep their newline: each piece that a
\* newline follows with the newline at its end, and the last piece if it
\* is not empty
LinesKeepingNewline(text) ==
    LET pieces == SplitOnNewline(text)
        n == Len(pieces)
    IN  [k \in 1..(IF pieces[n] = <<>> THEN n - 1 ELSE n) |->
            IF k < n THEN Append(pieces[k], NL) ELSE pieces[k]]

\* C12 as written: for a stream without quote characters the lines
\* yielded are the stream text split on the newline, each piece without
\* its newline.
C12_LinesAreSplitPieces ==
    (gen_pc = "done" /\ QuoteCount(stream) = 0) =>
        StreamLines = SplitOnNewline(stream)

\* C12, amended: for a stream without quote characters the lines yielded
\* are the pieces of the stream text split on the newline, each piece
\* that a newline follows yielded with that newline kept at its end, and
\* the piece after the last newline yielded only when it is not empty.
C12_LinesAreSplitPiecesWithNewline ==
    (gen_pc = "done" /\ QuoteCount(stream) = 0) =>
        StreamLines = LinesKeepingNewline(stream)

C12_Witness ==
    /\ gen_pc = "done"
    /\ QuoteCount(stream) = 0
    /\ Len(StreamLines) >= 3
    /\ EndsWithNewline(StreamLines[1])
    /\ ~EndsWithNewline(StreamLines[Len(StreamLines)])

\* the newlines of a text that stand outside its quoted strings, and the
\* text after the last of them
TerminatorPlaces(text) ==
    {k \in 1..Len(text) : text[k] = NL /\ ~InsideString(text, k)}
AfterLastTerminator(text) ==
    SubSeq(text,
           IF TerminatorPlaces(text) = {} THEN 1
           ELSE Greatest(TerminatorPlaces(text)) + 1,
           Len(text))

\* C13: when the stream ends outside a quoted string, line_iter finishes
\* normally, and the text after the last terminating newline is yielded
\* as the final line exactly when it is not empty: if it is empty every
\* yielded line ends with its terminating newline (and an empty stream
\* yields nothing), otherwise the last yielded line is that text.
C13_EofIsImplicitTerminator ==
    /\ (~UnclosedAtEOF) => gen_pc # "raised"
    /\ gen_pc = "done" =>
           /\ Flatten(StreamLines) = stream
           /\ IF AfterLastTerminator(stream) = <<>>
              THEN /\ Len(StreamLines) = Cardinality(TerminatorPlaces(stream))
                   /\ \A k \in 1..Len(StreamLines) : EndsWithNewline(StreamLines[k])
              ELSE /\ Len(StreamLines) = Cardinality(TerminatorPlaces(stream)) + 1
                   /\ StreamLines[Len(StreamLines)] = AfterLastTerminator(stream)
           /\ stream = <<>> => StreamLines = <<>>

C13_Witness ==
    /\ gen_pc = "done"
    /\ AfterLastTerminator(stream) # <<>>
    /\ QuoteCount(stream) > 0
    /\ Len(StreamLines) >= 2
    /\ StreamLines[Len(StreamLines)] = AfterLastTerminator(stream)

\* the terminating newlines that directly follow the start of the text or
\* another terminating newline, and the place among the lines of the line
\* that the terminator at k ends
BlankTerminators(text) ==
    {k \in TerminatorPlaces(text) : k = 1 \/ (k - 1) \in TerminatorPlaces(text)}
LineOfTerminator(text, k) == Cardinality({t \in TerminatorPlaces(text) : t <= k})

\* C14 as written: every terminating newline that directly follows the
\* stream start or another terminating newline gives its own yielded
\* line, the empty string.
C14_BlankLinesAreEmptyStrings ==
    \A k \in BlankTerminators(stream) :
        /\ gen_pc \in {"done", "raised"} =>
               LineOfTerminator(stream, k) <= Len(StreamLines)
        /\ LineOfTerminator(stream, k) <= Len(StreamLines) =>
               StreamLines[LineOfTerminator(stream, k)] = <<>>

\* C14, amended: every terminating newline that directly follows the
\* stream start or another terminating newline gives its own yielded
\* line, which holds that newline and nothing else; none is dropped and
\* none is merged with a neighbour.
C14_BlankLinesAreYielded ==
    \A k \in BlankTerminators(stream) :
        /\ gen_pc \in {"done", "raised"} =>
               LineOfTerminator(stream, k) <= Len(StreamLines)
        /\ LineOfTerminator(stream, k) <= Len(StreamLines) =>
               StreamLines[LineOfTerminator(stream, k)] = <<NL>>

C14_Witness ==
    /\ gen_pc = "done"
    /\ chunk_size >= 2
    /\ \E k \in BlankTerminators(stream) :
           /\ (k + 1) \in BlankTerminators(stream)
           /\ k > 1
           /\ StreamLines[LineOfTerminator(stream, k + 1)] = <<NL>>

\* ------------------------------------------------------------------------
\* Termination: parse run to its end on short streams, with every chunk size
\* ------------------------------------------------------------------------
MaxLiveLen == 3

LiveInit ==
    /\ \E content \in Texts(TokAlphabet, MaxLiveLen) : stream = content
    /\ chunk_size \in ChunkSizes
    /\ strict \in BOOLEAN
    /\ pos = 0
    /\ stack = <<>>
    /\ gen_pc = "new"
    /\ string_state = FALSE
    /\ line = <<>>
    /\ out = <<>>
    /\ iter_from = 0
    /\ iter_stack = <<>>
    /\ runs = <<>>
    /\ parse_pc = "loop"
    /\ nproc = 0
    /\ frame_latest = NoFrame
    /\ ignore_tabbed = FALSE
    /\ obj_list = <<>>
    /\ result = NoResult
    /\ error = NoError

LiveNext == ParseNext \/ ParseLine \/ ParseReturn \/ ParseAbort

\* parse is sequential code: as long as it has a step to take, it takes it
SpecLive == LiveInit /\ [][LiveNext]_vars /\ WF_vars(LiveNext)

\* C15: parse comes to an end, by returning or by raising, whatever the
\* chunk size; and line_iter, read to its end as a non-strict parse reads
\* it, stops or raises after finitely many yields.
C15_ParseTerminates ==
    /\ <>(parse_pc \in {"returned", "raised"})
    /\ (~strict) => <>(gen_pc \in {"done", "raised"})

C15_Witness ==
    /\ parse_pc = "returned"
    /\ gen_pc = "done"
    /\ chunk_size = 1
    /\ Len(out) >= 2

\* ------------------------------------------------------------------------
\* Two parsers, each constructed without an explicit stack
\* ------------------------------------------------------------------------
\* def __init__(self, stream, stack=[]): the default list is made once, when
\* the def statement runs, and self.stack = stack binds that one list in
\* every instance constructed without a stack.  `stack` is that list.  The
\* caller has used a first parser, on which it may have pushed lines, and
\* now constructs a second one on a stream of its own; `runs` keeps what the
\* first parser yielded, and from here on the generator state is the second
\* parser's.
NewParser(content) ==
    /\ Suspended
    /\ runs = <<>>
    /\ runs' = Append(runs, RunOutcome)
    /\ stream' = content
    /\ pos' = 0
    /\ gen_pc' = "none"
    /\ string_state' = FALSE
    /\ line' = <<>>
    /\ out' = <<>>
    /\ iter_from' = 0
    /\ iter_stack' = <<>>
    /\ UNCHANGED <<stack, chunk_size>>

SecondStreams == {<<>>, <<"b", NL>>}

SharedInit ==
    /\ \E content \in Texts(TokAlphabet, MaxPushStreamLen) : TokState(content)
    /\ chunk_size \in ChunkSizes
    /\ NoParse

\* lines are pushed on the first parser only
SharedNext ==
    \/ \E text \in PushLines :
         runs = <<>> /\ Pushes < MaxPush /\ Push(text) /\ UNCHANGED parse_vars
    \/ \E content \in SecondStreams : NewParser(content) /\ UNCHANGED parse_vars
    \/ (NewIter /\ UNCHANGED parse_vars)
    \/ (YieldPushed /\ UNCHANGED parse_vars)
    \/ (EnterStream /\ UNCHANGED parse_vars)
    \/ (ReadChunk /\ UNCHANGED parse_vars)

SpecShared == SharedInit /\ [][SharedNext]_vars

\* C16: a parser constructed without an explicit stack has a push-back
\* container of its own, empty at first: the second parser, on which nothing
\* was pushed, never yields a pushed line (every line it yields comes from
\* its stream).
C16_SecondParserYieldsNoPushedLine ==
    runs # <<>> => \A k \in 1..Len(out) : out[k].via # "stack"

\* ------------------------------------------------------------------------
\* The same content parsed twice
\* ------------------------------------------------------------------------
MaxReparseLines == 2

\* faulty variant: parse's locals outlive the call, as a default argument
\* would
ParseLocals_kept ==
    [frame_latest |-> frame_latest, ignore_tabbed |-> ignore_tabbed,
     obj_list |-> obj_list]

\* frame_latest = None; ignore_tabbed = False; obj_list = []: what every
\* call of parse starts from
ParseLocals ==
    [frame_latest |-> NoFrame, ignore_tabbed |-> FALSE, obj_list |-> <<>>]

\* how a call of parse ended: the records returned, or the exception
ParseOutcome == [result |-> result, error |-> error]

\* The first parse has ended; the caller rewinds the stream, stream.seek(0),
\* and calls DBCParser(stream).parse(strict) again.  The call makes a new
\* generator and new locals; the stack is the list the first parser had.
Reparse ==
    /\ parse_pc \in {"returned", "raised"}
    /\ runs = <<>>
    /\ runs' = Append(runs, ParseOutcome)
    /\ pos' = 0
    /\ gen_pc' = "new"
    /\ out' = <<>>
    /\ iter_from' = 0
    /\ iter_stack' = stack
    /\ parse_pc' = "loop"
    /\ nproc' = 0
    /\ frame_latest' = ParseLocals.frame_latest
    /\ ignore_tabbed' = ParseLocals.ignore_tabbed
    /\ obj_list' = ParseLocals.obj_list
    /\ result' = NoResult
    /\ error' = NoError
    /\ UNCHANGED <<stream, chunk_size, stack, string_state, line, strict>>

ReparseInit ==
    /\ \E pieces \in Texts(Catalogue, MaxReparseLines) :
         ParseState(Flatten(pieces))
    /\ strict \in BOOLEAN

ReparseNext == ParseNext \/ ParseLine \/ ParseReturn \/ ParseAbort \/ Reparse

SpecReparse == ReparseInit /\ [][ReparseNext]_vars

IntVal(n) == [type |-> "int", num |-> n, exp |-> 0, text |-> <<>>]
RECURSIVE FloatVal(_, _)
FloatVal(n, e) ==
    IF n = 0 THEN [type |-> "float", num |-> 0, exp |-> 0, text |-> <<>>]
    ELSE IF n % 10 = 0 THEN FloatVal(n \div 10, e + 1)
    ELSE [type |-> "float", num |-> n, exp |-> e, text |-> <<>>]
StrVal(t) == [type |-> "str", num |-> 0, exp |-> 0, text |-> t]
Raised(e) == [type |-> e, num |-> 0, exp |-> 0, text |-> <<>>]
ValueTypes == {"int", "float", "str"}

HexLower == <<"0", "1", "2", "3", "4", "5", "6", "7", "8", "9",
              "a", "b", "c", "d", "e", "f">>
HexUpper == <<"0", "1", "2", "3", "4", "5", "6", "7", "8", "9",
              "A", "B", "C", "D", "E", "F">>
HexChars == {HexLower[k] : k \in 1..16} \cup {HexUpper[k] : k \in 1..16}
DigitValue(c) == (CHOOSE k \in 1..16 : HexLower[k] = c \/ HexUpper[k] = c) - 1

\* the number a run of digits denotes in a base
RECURSIVE DigitsValue(_, _)
DigitsValue(digits, base) ==
    IF digits = <<>> THEN 0
    ELSE DigitsValue(SubSeq(digits, 1, Len(digits) - 1), base) * base
         + DigitValue(digits[Len(digits)])

Signs == {"+", "-"}
Unsigned(text) ==
    IF text # <<>> /\ text[1] \in Signs THEN Tail(text) ELSE text
SignOf(text) == IF text # <<>> /\ text[1] = "-" THEN -1 ELSE 1

\* int(text, base) accepts whitespace around an optional sign and digits of
\* the base, after an optional 0x / 0b prefix, with single underscores
BaseText_REGEX(digit, letter) ==
    Cat(<<W0, Opt(Chr(Signs)), Opt(Cat(<<C("0"), letter>>)),
          digit, Star(Cat(<<Opt(C("_")), digit>>)), W0>>)
HexText_REGEX == BaseText_REGEX(Chr(HexChars), Chr({"x", "X"}))
BinText_REGEX == BaseText_REGEX(Chr({"0", "1"}), Chr({"b", "B"}))

\* int(text) of a signed run of decimal digits
IntOf(text) == SignOf(text) * DigitsValue(Unsigned(text), 10)

\* float(text) of a signed decimal literal with an optional point and an
\* optional exponent
FloatOf(text) ==
    LET body == Unsigned(text)
        marks == {k \in 1..Len(body) : body[k] \in {"e", "E"}}
        mantissa == IF marks = {} THEN body ELSE SubSeq(body, 1, Least(marks) - 1)
        exponent == IF marks = {} THEN <<"0">>
                    ELSE SubSeq(body, Least(marks) + 1, Len(body))
        points == {k \in 1..Len(mantissa) : mantissa[k] = "."}
        whole == IF points = {} THEN mantissa
                 ELSE SubSeq(mantissa, 1, Least(points) - 1)
        fraction == IF points = {} THEN <<>>
                    ELSE SubSeq(mantissa, Least(points) + 1, Len(mantissa))
    IN  FloatVal(SignOf(text) * DigitsValue(whole \o fraction, 10),
                 IntOf(exponent) - Len(fraction))

\* the second members of _t_flex_map's pairs, applied to m.group('val')
Convert(typ, text) ==
    CASE typ = "int" ->
           IF IsIntText(text) THEN IntVal(IntOf(text)) ELSE Raised("ValueError")
      [] typ = "float" ->
           IF IsFloatText(text) THEN FloatOf(text) ELSE Raised("ValueError")
      [] typ = "hex" ->
           IF FullMatch(HexText_REGEX, text)
           THEN IntVal(DigitsValue(text, 16)) ELSE Raised("ValueError")
      [] typ = "bin" ->
           IF FullMatch(BinText_REGEX, text)
           THEN IntVal(DigitsValue(text, 2)) ELSE Raised("ValueError")
      [] typ = "str" -> StrVal(text)

FlexSign == Opt(Chr(Signs))
FlexInt_REGEX ==
    Cat(<<Bol(FALSE), Grp("val", Cat(<<FlexSign, Plus(Digit)>>)), Eol(FALSE)>>)
FlexFloat_REGEX ==
    Cat(<<Grp("val",
              Cat(<<FlexSign,
                    Alt(<<Cat(<<Star(Digit), C("."), Plus(Digit)>>),
                          Cat(<<Plus(Digit), Opt(C("."))>>)>>),
                    Opt(Cat(<<Chr({"e", "E"}), FlexSign, Plus(Digit)>>))>>)),
          Eol(FALSE)>>)
FlexHex_REGEX ==
    Cat(<<Bol(FALSE), C("0"), Chr({"x", "X"}),
          Grp("val", Plus(Chr(HexChars))), Eol(FALSE)>>)
FlexBin_REGEX ==
    Cat(<<Bol(FALSE), C("0"), Chr({"b", "B"}),
          Grp("val", Plus(Chr({"0", "1"}))), Eol(FALSE)>>)
FlexStr_REGEX == Cat(<<Bol(FALSE), Quoted("val"), Eol(FALSE)>>)

\* faulty variant: the float shape is tried before the integer shape
t_flex_map_float_first ==
    << [regex |-> FlexFloat_REGEX, typ |-> "float"],
       [regex |-> FlexInt_REGEX, typ |-> "int"],
       [regex |-> FlexHex_REGEX, typ |-> "hex"],
       [regex |-> FlexBin_REGEX, typ |-> "bin"],
       [regex |-> FlexStr_REGEX, typ |-> "str"] >>

\* _t_flex_map
t_flex_map ==
    << [regex |-> FlexInt_REGEX, typ |-> "int"],
       [regex |-> FlexFloat_REGEX, typ |-> "float"],
       [regex |-> FlexHex_REGEX, typ |-> "hex"],
       [regex |-> FlexBin_REGEX, typ |-> "bin"],
       [regex |-> FlexStr_REGEX, typ |-> "str"] >>

\* the loop of _t_flexible_val over the pairs from the k-th on
RECURSIVE FlexFrom(_, _)
FlexFrom(k, value) ==
    IF k > Len(t_flex_map) THEN StrVal(value)
    ELSE LET m == Search(t_flex_map[k].regex, {"val"}, value)
         IN  IF m.ok THEN Convert(t_flex_map[k].typ, m.caps["val"])
             ELSE FlexFrom(k + 1, value)

\* _t_flexible_val(value)
t_flexible_val(value) == FlexFrom(1, value)

\* ------------------------------------------------------------------------
\* Attribute and default-value lines built with from_line, value by value
\* ------------------------------------------------------------------------
MaxValueLen == 3
MaxDigits == 3
ValueAlphabet == {"0", "1", "x", "b", "e", ".", "-", QUOTE}
LiteralDigits == {"0", "1", "A"}
LiteralPrefixes == {<<"0", "x">>, <<"0", "X">>, <<"0", "b">>}
ValueTexts ==
    Texts(ValueAlphabet, MaxValueLen)
    \cup {prefix \o digits : prefix \in LiteralPrefixes,
                             digits \in Texts(LiteralDigits, MaxDigits) \ {<<>>}}
GlobalAttributeHead == <<"B", "A", "_", " ", QUOTE, "n", QUOTE, " ">>
DefaultValueHead ==
    <<"B", "A", "_", "D", "E", "F", "_", "D", "E", "F", "_", " ", QUOTE, "n",
      QUOTE, " ">>
ValueHeads == {GlobalAttributeHead, DefaultValueHead}
ValueLine(head, value) == head \o value \o <<";">>

\* the classes whose _TYPE_MAP is {'name': str, 'value': _t_flexible_val}
ValueClasses ==
    {DBC_LINE_CLASSES[k] : k \in {j \in 1..Len(DBC_LINE_CLASSES) :
        DBC_LINE_CLASSES[j].name \in {"GlobalAttribute", "DefaultValue"}}}

ValueInit ==
    /\ \E head \in ValueHeads, value \in ValueTexts :
         TokState(ValueLine(head, value))
    /\ chunk_size = CHUNK_SIZE
    /\ NoParse

\* cls.from_line(line), as the line tests call it: the pattern is searched
\* and LineObject.__init__ coerces the groups through _TYPE_MAP
ValueFromLine ==
    /\ obj_list = <<>>
    /\ error = NoError
    /\ \E cls \in ValueClasses :
         \E made \in {from_line(cls, stream)} :
           /\ made.kind = "obj"
           /\ \E val \in {t_flexible_val(made.groups["value"])} :
                IF val.type \in ValueTypes
                THEN /\ obj_list' = <<[id |-> 1, cls |-> made.cls,
                                       name |-> made.groups["name"],
                                       value |-> val]>>
                     /\ error' = error
                ELSE /\ error' = val.type
                     /\ obj_list' = obj_list
    /\ UNCHANGED <<strict, parse_pc, nproc, frame_latest, ignore_tabbed, result>>
    /\ UNCHANGED tok_vars

SpecValue == ValueInit /\ [][ValueFromLine]_vars

\* the value text of the line in the stream, and the value built from it
InputValue ==
    SubSeq(stream,
           (IF stream[4] = "D" THEN Len(DefaultValueHead)
            ELSE Len(GlobalAttributeHead)) + 1,
           Len(stream) - 1)
Built == obj_list # <<>>
BuiltValue == obj_list[1].value

\* the five literal shapes a value text can have as a whole
AllIn(text, S) == \A k \in 1..Len(text) : text[k] \in S
HasPrefix(text, letters) ==
    Len(text) >= 3 /\ text[1] = "0" /\ text[2] \in letters
Digits(text) == SubSeq(text, 3, Len(text))
IsHexLiteral(text) == HasPrefix(text, {"x", "X"}) /\ AllIn(Digits(text), HexChars)
IsBinLiteral(text) == HasPrefix(text, {"b", "B"}) /\ AllIn(Digits(text), {"0", "1"})
IsIntLiteral(text) ==
    Unsigned(text) # <<>> /\ AllIn(Unsigned(text), DigitChars)
IsFloatLiteral(text) ==
    LET body == Unsigned(text)
        marks == {k \in 1..Len(body) : body[k] \in {"e", "E"}}
        mantissa == IF marks = {} THEN body ELSE SubSeq(body, 1, Least(marks) - 1)
        exponent == SubSeq(body, Least(marks) + 1, Len(body))
        points == {k \in 1..Len(mantissa) : mantissa[k] = "."}
    IN  /\ Cardinality(points) <= 1
        /\ AllIn(mantissa, DigitChars \cup {"."})
        /\ Len(mantissa) > Cardinality(points)
        /\ (points # {} /\ Least(points) = Len(mantissa)) => Len(mantissa) > 1
        /\ marks # {} => IsIntLiteral(exponent)
IsQuotedLiteral(text) ==
    /\ Len(text) >= 2
    /\ text[1] = QUOTE
    /\ text[Len(text)] = QUOTE
    /\ \A k \in 2..(Len(text) - 1) : text[k] # QUOTE
HasShape(text) ==
    \/ IsIntLiteral(text)
    \/ IsFloatLiteral(text)
    \/ IsHexLiteral(text)
    \/ IsBinLiteral(text)
    \/ IsQuotedLiteral(text)

\* the integer the digits denote in the base, digit by digit from the left
RECURSIVE Denoted(_, _, _)
Denoted(digits, base, sofar) ==
    IF digits = <<>> THEN sofar
    ELSE Denoted(Tail(digits), base, sofar * base + DigitValue(Head(digits)))

RECURSIVE TenTo(_)
TenTo(n) == IF n = 0 THEN 1 ELSE 10 * TenTo(n - 1)
\* the value is a number equal to n, as an int or as a float
IsNumber(val, n) ==
    /\ val.type \in {"int", "float"}
    /\ val.exp >= 0
    /\ val.num * TenTo(val.exp) = n

\* C18: a 0x literal is coerced to the integer its digits denote in base 16
\* and a 0b literal to the integer its digits denote in base 2 (a result
\* that is numerically equal to that integer is accepted here)
C18_HexAndBinaryDenoteTheirInteger ==
    Built =>
        /\ IsHexLiteral(InputValue)
             => IsNumber(BuiltValue, Denoted(Digits(InputValue), 16, 0))
        /\ IsBinLiteral(InputValue)
             => IsNumber(BuiltValue, Denoted(Digits(InputValue), 2, 0))

\* C19: a value text that as a whole has none of the five shapes is
\* returned unchanged, and no coercion raises
C19_ShapelessTextIsKeptAndNothingRaises ==
    /\ error = NoError
    /\ (Built /\ ~HasShape(InputValue)) => BuiltValue = StrVal(InputValue)

\* C20: a literal that is wholly a decimal integer yields that int, not a
\* float; one that is wholly a float literal and no integer yields that
\* float; a double-quoted literal yields its contents without the quotes
C20_ShapesInOrder ==
    Built =>
        /\ IsIntLiteral(InputValue)
             => BuiltValue = IntVal(SignOf(InputValue)
                                    * Denoted(Unsigned(InputValue), 10, 0))
        /\ (IsFloatLiteral(InputValue) /\ ~IsIntLiteral(InputValue))
             => BuiltValue = FloatOf(InputValue)
        /\ IsQuotedLiteral(InputValue)
             => BuiltValue = StrVal(SubSeq(InputValue, 2, Len(InputValue) - 1))

C20_Witness ==
    /\ Built
    /\ InputValue = <<"-", "1", "0">>
    /\ BuiltValue = IntVal(-10)

\* ------------------------------------------------------------------------
\* The list, node and enumeration coercions of _TYPE_MAP
\* ------------------------------------------------------------------------
Sentinel == <<"V", "e", "c", "t", "o", "r", "_", "_", "X", "X", "X">>

\* the members of a sequence that are not in a set, in order
RECURSIVE Without(_, _)
Without(seq, S) ==
    IF seq = <<>> THEN <<>>
    ELSE IF Head(seq) \in S THEN Without(Tail(seq), S)
    ELSE <<Head(seq)>> \o Without(Tail(seq), S)

\* str.strip()
Strip(text) ==
    LET kept == {k \in 1..Len(text) : text[k] \notin SpaceChars}
    IN  IF kept = {} THEN <<>> ELSE SubSeq(text, Least(kept), Greatest(kept))

\* re.split(pattern, text) for a pattern that matches no empty text
RECURSIVE RegexSplit(_, _)
RegexSplit(re, text) ==
    LET m == Search(re, {}, text)
    IN  IF ~m.ok THEN <<text>>
        ELSE <<SubSeq(text, 1, m.start)>>
             \o RegexSplit(re, SubSeq(text, m.end + 1, Len(text)))

\* faulty variant: a token that begins with the sentinel is a null node
t_transmitter_prefix(value) ==
    IF Len(value) >= Len(Sentinel) /\ SubSeq(value, 1, Len(Sentinel)) = Sentinel
    THEN None ELSE value

\* _t_transmitter
t_transmitter(value) == IF value = Sentinel THEN None ELSE value

\* faulty variant: the sentinel is kept among the receivers
t_nodelist_csv_keeping(value) ==
    Without(RegexSplit(Cat(<<W0, C(","), W0>>), Strip(value)), {<<>>})

\* _t_nodelist_csv
t_nodelist_csv(value) ==
    Without(RegexSplit(Cat(<<W0, C(","), W0>>), Strip(value)), {<<>>, Sentinel})

\* _t_nodelist_space
t_nodelist_space(value) == Without(SplitSpace(value), {<<>>})

\* faulty variant: the first label given for a code is the one kept
EnumsAfter_first(enums, code, label) == enums @@ (code :> label)

\* enums[int(k)] = v
EnumsAfter(enums, code, label) == (code :> label) @@ enums

\* _t_enum_list: the loop over _t_enum_list_regex.finditer(value)
EnumPair_REGEX ==
    Cat(<<Grp("k", Plus(Digit)), W0,
          C(QUOTE), Grp("v", Star(NotChr({QUOTE}))), C(QUOTE)>>)
RECURSIVE EnumsFrom(_, _)
EnumsFrom(enums, value) ==
    LET m == Search(EnumPair_REGEX, {"k", "v"}, value)
    IN  IF ~m.ok THEN enums
        ELSE EnumsFrom(EnumsAfter(enums, IntOf(m.caps["k"]), m.caps["v"]),
                       SubSeq(value, m.end + 1, Len(value)))
t_enum_list(value) == EnumsFrom(<<>>, value)

\* str.lower() on the letters of a text
LowerLetters == <<"a", "b", "c", "d", "e", "f", "g", "h", "i", "j", "k", "l", "m",
                  "n", "o", "p", "q", "r", "s", "t", "u", "v", "w", "x", "y", "z">>
UpperLetters == <<"A", "B", "C", "D", "E", "F", "G", "H", "I", "J", "K", "L", "M",
                  "N", "O", "P", "Q", "R", "S", "T", "U", "V", "W", "X", "Y", "Z">>
Lower(text) ==
    [k \in 1..Len(text) |->
        IF text[k] \in UpperChars
        THEN LowerLetters[CHOOSE j \in 1..26 : UpperLetters[j] = text[k]]
        ELSE text[k]]

\* faulty variant: a HEX define is given the text type
DefineType_hextext(tag) ==
    CASE tag \in {TAG_STR, TAG_STRING, TAG_HEX} -> "str"
      [] tag = TAG_INT -> "int"
      [] tag = TAG_FLOAT -> "float"
      [] tag = TAG_BOOL -> "bool"
      [] tag = TAG_ENUM -> "tuple"

\* GlobalDefine.__init__: self.type, from the type tag
DefineType(tag) ==
    CASE tag \in {TAG_STR, TAG_STRING} -> "str"
      [] tag \in {TAG_INT, TAG_HEX} -> "int"
      [] tag = TAG_FLOAT -> "float"
      [] tag = TAG_BOOL -> "bool"
      [] tag = TAG_ENUM -> "tuple"

\* the labels of an ENUM: m.group('val').strip() over
\* value_regex.finditer(params)
EnumLabel_REGEX ==
    Cat(<<C(QUOTE), Grp("val", Plus(NotChr({QUOTE}))), C(QUOTE)>>)
RECURSIVE EnumLabels(_)
EnumLabels(params) ==
    LET m == Search(EnumLabel_REGEX, {"val"}, params)
    IN  IF ~m.ok THEN <<>>
        ELSE <<Strip(m.caps["val"])>>
             \o EnumLabels(SubSeq(params, m.end + 1, Len(params)))

\* GlobalDefine.__init__: self.params, for a tag and params that raise
\* nothing (DefineError).  int() and float() are given the pieces of
\* re.split(r'\s+', params); int() reads a piece through its underscores.
DefineParams(tag, params) ==
    LET pieces == SplitSpace(params)
    IN  CASE DefineType(tag) = "int" ->
               [k \in 1..Len(pieces) |-> IntVal(IntOf(Without(pieces[k], {"_"})))]
          [] DefineType(tag) = "float" ->
               [k \in 1..Len(pieces) |-> FloatOf(Without(pieces[k], {"_"}))]
          [] DefineType(tag) = "tuple" -> EnumLabels(params)
          [] DefineType(tag) = "bool" ->
               LET given == Without(pieces, {<<>>})
               IN  [k \in 1..Len(given) |->
                       Lower(given[k]) = <<"t", "r", "u", "e">>]
          [] DefineType(tag) = "str" -> None

\* cls(**match.groupdict()): the fields the constructor sets through
\* _TYPE_MAP (and GlobalDefine.__init__) for the classes with a list, node,
\* enumeration or define coercion
TypedFields(made) ==
    CASE made.cls = "NodeList" ->
           [nodes |-> t_nodelist_space(made.groups["nodes"])]
      [] made.cls = "Signal" ->
           [receivers |-> t_nodelist_csv(made.groups["receivers"])]
      [] made.cls = "Frame" ->
           [transmitter |-> t_transmitter(made.groups["transmitter"])]
      [] made.cls \in {"Enumeration", "ValueTable"} ->
           [enums |-> t_enum_list(made.groups["enums"])]
      [] made.cls \in DefineClasses ->
           [type |-> DefineType(made.groups["type"]),
            params |-> DefineParams(made.groups["type"], made.groups["params"])]
      [] OTHER -> [none |-> None]

\* ------------------------------------------------------------------------
\* Lines with a list, node, enumeration or define field, classified and
\* built one at a time
\* ------------------------------------------------------------------------
MaxFieldPieces == 4
MaxParams == 2
Joined(pieces, n) == {Flatten(seq) : seq \in Texts(pieces, n)}

NodeListHead == <<"B", "U", "_", ":">>
NodePieces == {<<"A">>, <<"B">>, <<" ">>, Sentinel}
SignalHead ==
    <<"S", "G", "_", " ", "s", " ", ":", " ", "0", "|", "1", "@", "1", "+",
      " ", "(", "1", ",", "0", ")", " ", "[", "0", "|", "1", "]", " ",
      QUOTE, QUOTE, " ">>
ReceiverPieces == {<<"A">>, <<",">>, <<" ">>, Sentinel}
FrameHead == <<"B", "O", "_", " ", "1", " ", "F", ":", " ", "8", " ">>
TransmitterPieces == {<<"A">>, Sentinel}
EnumerationHead == <<"V", "A", "L", "_", " ", "1", " ", "s", " ">>
ValueTableHead == <<"V", "A", "L", "_", "T", "A", "B", "L", "E", "_", " ", "t", " ">>
EnumPieces == {<<"1">>, <<" ">>, <<QUOTE, "a", QUOTE>>, <<QUOTE, "b", QUOTE>>}
DefineHeads ==
    {<<"B", "A", "_", "D", "E", "F", "_", " ">> \o scope \o <<QUOTE, "n", QUOTE, " ">> :
        scope \in {<<>>, <<"S", "G", "_", " ">>, <<"B", "O", "_", " ">>,
                   <<"B", "U", "_", " ">>}}
DefineTags ==
    {TAG_STR, TAG_STRING, TAG_INT, TAG_HEX, TAG_FLOAT, TAG_BOOL, TAG_ENUM,
     <<"X", "Y", "Z">>}
DefineTokens ==
    {<<"0">>, <<"-", "1">>, <<"1", ".", "5">>, <<"T", "r", "u", "e">>,
     <<"F", "a", "l", "s", "e">>, <<QUOTE, " ", "a", QUOTE>>}
DefineTexts ==
    {tag \o Flatten([k \in 1..Len(tokens) |-> <<" ">> \o tokens[k]]) \o <<";">> :
        tag \in DefineTags, tokens \in Texts(DefineTokens, MaxParams)}

FieldLines ==
    {NodeListHead \o body : body \in Joined(NodePieces, MaxFieldPieces)}
    \cup {SignalHead \o body : body \in Joined(ReceiverPieces, MaxFieldPieces)}
    \cup {FrameHead \o body : body \in Joined(TransmitterPieces, MaxFieldPieces)}
    \cup {head \o body \o <<";">> :
            head \in {EnumerationHead, ValueTableHead},
            body \in Joined(EnumPieces, MaxFieldPieces)}
    \cup {head \o text : head \in DefineHeads, text \in DefineTexts}

FieldInit ==
    /\ \E text \in FieldLines : TokState(text)
    /\ chunk_size = CHUNK_SIZE
    /\ NoParse

\* get_obj(line) of DBCParser.parse on one line: None, the exception of the
\* constructor, or the object with its coerced fields
FieldFromLine ==
    /\ obj_list = <<>>
    /\ error = NoError
    /\ result = NoResult
    /\ \E made \in {get_obj(stream)} :
         CASE made.kind = "none" ->
                result' = None /\ UNCHANGED <<obj_list, error>>
           [] made.kind = "raise" ->
                error' = made.error /\ UNCHANGED <<obj_list, result>>
           [] made.kind = "obj" ->
                /\ obj_list' = <<[id |-> 1, cls |-> made.cls, groups |-> made.groups,
                                  typed |-> TypedFields(made)]>>
                /\ UNCHANGED <<error, result>>
    /\ UNCHANGED <<strict, parse_pc, nproc, frame_latest, ignore_tabbed>>
    /\ UNCHANGED tok_vars

SpecField == FieldInit /\ [][FieldFromLine]_vars

\* the text after a head, when the line in the stream begins with it
HasHead(head) == Len(stream) >= Len(head) /\ SubSeq(stream, 1, Len(head)) = head
AfterHead(head) == SubSeq(stream, Len(head) + 1, Len(stream))
BuiltAs(cls) == obj_list # <<>> /\ obj_list[1].cls = cls
\* the maximal runs of characters outside a set of separators, in order
RECURSIVE TokensOf(_, _)
TokensOf(text, separators) ==
    LET stops == {k \in 1..Len(text) : text[k] \in separators}
    IN  IF text = <<>> THEN <<>>
        ELSE IF stops = {} THEN <<text>>
        ELSE (IF Least(stops) = 1 THEN <<>>
              ELSE <<SubSeq(text, 1, Least(stops) - 1)>>)
             \o TokensOf(SubSeq(text, Least(stops) + 1, Len(text)), separators)

\* C21: the node list of a BU_: line is its whitespace-separated names in
\* order, with no blank token and no null-node sentinel among them
C21_NodeListHasNamesWithoutSentinel ==
    BuiltAs("NodeList") =>
        obj_list[1].typed.nodes
            = Without(TokensOf(AfterHead(NodeListHead), SpaceChars), {Sentinel})

\* C22: the receiver list of a Signal line is its comma-separated names in
\* order, without the blank tokens and without any null-node sentinel; a
\* field holding only the sentinel gives the empty list
C22_ReceiversAreNamesWithoutSentinel ==
    BuiltAs("Signal") =>
        LET tokens == TokensOf(AfterHead(SignalHead), {","})
            names == [k \in 1..Len(tokens) |-> Strip(tokens[k])]
        IN  /\ obj_list[1].typed.receivers = Without(names, {<<>>, Sentinel})
            /\ Strip(AfterHead(SignalHead)) = Sentinel
                 => obj_list[1].typed.receivers = <<>>

C22_Witness ==
    /\ BuiltAs("Signal")
    /\ AfterHead(SignalHead) = Sentinel \o <<",", "A", "A">>
    /\ obj_list[1].typed.receivers = << <<"A", "A">> >>

\* C23: a Frame's transmitter is None exactly when the transmitter token is
\* the null-node sentinel; any other token is kept as the name
C23_TransmitterAbsentIffSentinel ==
    BuiltAs("Frame") =>
        /\ obj_list[1].typed.transmitter = None
             <=> AfterHead(FrameHead) = Sentinel
        /\ AfterHead(FrameHead) # Sentinel
             => obj_list[1].typed.transmitter = AfterHead(FrameHead)

C23_Witness ==
    /\ BuiltAs("Frame")
    /\ AfterHead(FrameHead) = Sentinel
    /\ obj_list[1].typed.transmitter = None

\* the body of the VAL_ or VAL_TABLE_ line in the stream, and its pairs:
\* the i-th label stands between the (2i-1)-th and the 2i-th quote, its code
\* between the quote before them (or the start) and the (2i-1)-th
EnumsText ==
    LET head == IF HasHead(ValueTableHead) THEN ValueTableHead ELSE EnumerationHead
    IN  SubSeq(stream, Len(head) + 1, Len(stream) - 1)
NthQuote(text, n) ==
    CHOOSE q \in QuotePlaces(text) :
        Cardinality({p \in QuotePlaces(text) : p < q}) = n - 1
PairCount(text) == Cardinality(QuotePlaces(text)) \div 2
LabelOf(text, i) ==
    SubSeq(text, NthQuote(text, 2 * i - 1) + 1, NthQuote(text, 2 * i) - 1)
CodeOf(text, i) ==
    Denoted(Strip(SubSeq(text,
                         IF i = 1 THEN 1 ELSE NthQuote(text, 2 * i - 2) + 1,
                         NthQuote(text, 2 * i - 1) - 1)), 10, 0)

\* C24: the enums of a VAL_ or VAL_TABLE_ record map each integer code of
\* the body to the label that follows it, whatever the whitespace between
\* the tokens; a code given more than once has the label of its last
\* occurrence
C24_EnumsMapCodesToLastLabel ==
    (BuiltAs("Enumeration") \/ BuiltAs("ValueTable")) =>
        LET pairs == 1..PairCount(EnumsText)
            enums == obj_list[1].typed.enums
        IN  /\ DOMAIN enums = {CodeOf(EnumsText, i) : i \in pairs}
            /\ \A i \in pairs :
                 (\A j \in pairs :
                     j > i => CodeOf(EnumsText, j) # CodeOf(EnumsText, i))
                 => enums[CodeOf(EnumsText, i)] = LabelOf(EnumsText, i)

C24_Witness ==
    /\ BuiltAs("Enumeration")
    /\ EnumsText = <<"1", QUOTE, "a", QUOTE, "1", QUOTE, "b", QUOTE>>
    /\ obj_list[1].typed.enums = (1 :> <<"b">>)

\* the type tag and the parameter tokens of the define line in the stream:
\* what stands between the name and the closing semicolon
DefineBody == SubSeq(stream, NthQuote(stream, 2) + 1, Len(stream) - 1)
DefineTag == Head(TokensOf(DefineBody, SpaceChars))
DefineArgs == Tail(TokensOf(DefineBody, SpaceChars))
BuiltDefine == obj_list # <<>> /\ obj_list[1].cls \in DefineClasses
Decided == obj_list # <<>> \/ error # NoError \/ result # NoResult

\* C25: a define record has the coarse type of its tag and its parameters:
\* STR/STRING text and no parameters; INT/HEX integer and the integers
\* given (the min, max pair); FLOAT float and the floats given; BOOL
\* boolean and the booleans of the True / False tokens; ENUM the quoted
\* labels in order (read without surrounding whitespace).  A matched line
\* with any other tag ends in an error, never in no-match.
C25_DefineTypesAndParams ==
    /\ BuiltDefine =>
         LET type == obj_list[1].typed.type
             params == obj_list[1].typed.params
             args == DefineArgs
             labels == DefineBody
         IN  /\ DefineTag \in {TAG_STR, TAG_STRING}
                  => type = "str" /\ params = None
             /\ DefineTag \in {TAG_INT, TAG_HEX}
                  => /\ type = "int"
                     /\ (\A k \in 1..Len(args) : IsIntLiteral(args[k]))
                          => params = [k \in 1..Len(args) |->
                                         IntVal(SignOf(args[k])
                                                * Denoted(Unsigned(args[k]), 10, 0))]
             /\ DefineTag = TAG_FLOAT
                  => /\ type = "float"
                     /\ (\A k \in 1..Len(args) : IsFloatLiteral(args[k]))
                          => params = [k \in 1..Len(args) |-> FloatOf(args[k])]
             /\ DefineTag = TAG_BOOL
                  => /\ type = "bool"
                     /\ (\A k \in 1..Len(args) :
                            args[k] \in {<<"T", "r", "u", "e">>,
                                         <<"F", "a", "l", "s", "e">>})
                          => params = [k \in 1..Len(args) |->
                                         args[k] = <<"T", "r", "u", "e">>]
             /\ DefineTag = TAG_ENUM
                  => /\ type = "tuple"
                     /\ params = [i \in 1..PairCount(labels) |->
                                     Strip(LabelOf(labels, i))]
    /\ (Decided /\ HasHead(<<"B", "A", "_", "D", "E", "F", "_", " ">>)
          /\ DefineTag = <<"X", "Y", "Z">>)
         => error # NoError /\ result # None

C25_Witness ==
    /\ BuiltDefine
    /\ DefineTag = TAG_HEX
    /\ DefineArgs = << <<"-", "1">>, <<"0">> >>
    /\ obj_list[1].typed.params = <<IntVal(-1), IntVal(0)>>

\* C26: a scoped attribute line that parse classifies is recorded as the
\* variant of its scope, with the scope key and the value as separate
\* fields: the line BA_ "n" BO_ 1 2; as a FrameAttribute of frame 1 with
\* the value 2
C26_ScopedAttributeIsScopedRecord ==
    \A k \in 1..nproc :
        out[k].text = AttributeText
            => \E i \in 1..Len(obj_list) :
                   /\ obj_list[i].cls = "FrameAttribute"
                   /\ obj_list[i].groups["address"] = <<"1">>
                   /\ obj_list[i].groups["value"] = <<"2">>

\* C27: a line pushed while a line_iter iteration is reading from the
\* stream is the next line that iteration yields.  (The stack can hold a
\* line while the generator is past its first loop only if the line was
\* pushed during the iteration.)
C27_Step ==
    (/\ gen_pc \in {"yield_line", "read"}
     /\ stack # <<>>
     /\ gen_pc' # "new"
     /\ Len(out') = Len(out) + 1)
        => out'[Len(out')] = [text |-> Head(stack), via |-> "stack"]
C27_PushedLineIsNextYielded == [][C27_Step]_vars

\* C28: the failure of a strict parse on an unrecognised non-blank line is a
\* DBCSyntaxError, the kind the tokenizer raises for an unterminated string
C28_StrictFailureIsSyntaxError ==
    (parse_pc = "raised" /\ strict /\ nproc >= 1 /\ UnmatchedLine(nproc))
        => error = "DBCSyntaxError"

\* C29: a Signal line recognised before any Frame line never fails the
\* parse, in either mode: the Signal is appended with no frame link, and
\* it has none in any later state, whatever Frame lines follow
C29_Step ==
    (/\ parse_pc = "loop"
     /\ nproc' = nproc + 1
     /\ ~WhitespaceOnly(out[nproc + 1].text)
     /\ ~(ignore_tabbed /\ StartsWithWhitespace(out[nproc + 1].text))
     /\ \A i \in 1..Len(obj_list) : obj_list[i].cls # "Frame"
     /\ \E first \in {FirstMatching(1, out[nproc + 1].text)} :
          /\ first # 0
          /\ DBC_LINE_CLASSES[first].name = "Signal"
          /\ ~CannotBuild(first, out[nproc + 1].text))
        => /\ parse_pc' = "loop"
           /\ error' = NoError
           /\ Len(obj_list') = Len(obj_list) + 1
           /\ obj_list'[Len(obj_list')].cls = "Signal"
           /\ obj_list'[Len(obj_list')].frame = NoFrame
C29_SignalBeforeFrameStaysUnlinked ==
    /\ [][C29_Step]_vars
    /\ [](\A i \in 1..Len(obj_list) :
            (obj_list[i].cls = "Signal" /\ FramesBefore(obj_list, i) = {})
                => obj_list[i].frame = NoFrame)

C29_Witness ==
    /\ parse_pc = "returned"
    /\ strict
    /\ Len(result) >= 2
    /\ result[1].cls = "Signal"
    /\ result[1].frame = NoFrame
    /\ result[2].cls = "Frame"

\* the lines yielded so far, joined
YieldedText == Flatten([k \in 1..Len(out) |-> out[k].text])

\* C30: with an empty stack, the lines yielded by one complete line_iter
\* run, joined, are the stream text: after every yield they are the text
\* up to the stream position, at the end they are the whole stream, and
\* every line but one ended by the end of the stream keeps its newline; a
\* run fails only on a stream whose quotes are not balanced
C30_YieldedLinesRebuildStream ==
    iter_from = 0 =>
        /\ gen_pc = "yield_line" => YieldedText = SubSeq(stream, 1, pos)
        /\ gen_pc = "done"
             => /\ YieldedText = stream
                /\ QuoteCount(stream) % 2 = 0
                /\ \A k \in 1..(Len(out) - 1) : EndsWithNewline(out[k].text)
        /\ gen_pc = "raised" => QuoteCount(stream) % 2 = 1

C30_Witness ==
    /\ gen_pc = "done"
    /\ iter_from = 0
    /\ chunk_size = 2
    /\ Len(out) = 3
    /\ QuoteCount(stream) = 2
    /\ Len(stream) = MaxStreamLen

====
